---- MODULE Spec2Model ----
(***************************************************************************)
(* Model of upload_products.py: the reconciliation of one row group        *)
(* (rows sharing a handle) against a remote catalog.  Every call of        *)
(* run_graphql_query is one step; the remote side answers each request     *)
(* with a payload, with user errors, or not at all.                        *)
(***************************************************************************)
EXTENDS Integers, Sequences, FiniteSets, TLC

(***************************************************************************)
(* Strings are sequences of one-character strings, so that str.strip and   *)
(* str.lower are computed and not assumed.                                 *)
(***************************************************************************)
NaN == <<"NaN">>          \* pandas' missing cell
None == <<"None">>        \* a null in a response
Empty == <<>>

ABC1 == <<"A", "B", "C", "-", "1">>
PadABC1 == <<" ", " ", "A", "B", "C", "-", "1", " ", " ">>
abc1 == <<"a", "b", "c", "-", "1">>
Small == <<"S", "m", "a", "l", "l">>
small == <<"s", "m", "a", "l", "l">>
Large == <<"L", "a", "r", "g", "e">>
Size == <<"S", "i", "z", "e">>
DefaultTitle == <<"D", "e", "f", "a", "u", "l", "t", " ", "T", "i", "t", "l", "e">>

\* str.lower on one character
LowerChar(c) ==
    CASE c = "A" -> "a" [] c = "B" -> "b" [] c = "C" -> "c"
      [] c = "S" -> "s" [] c = "L" -> "l" [] c = "D" -> "d" [] c = "T" -> "t"
      [] OTHER -> c

lower(s) == [k \in 1..Len(s) |-> LowerChar(s[k])]

RECURSIVE lstrip(_)
lstrip(s) == IF s # <<>> /\ Head(s) = " " THEN lstrip(Tail(s)) ELSE s

RECURSIVE rstrip(_)
rstrip(s) == IF s # <<>> /\ s[Len(s)] = " " THEN rstrip(SubSeq(s, 1, Len(s) - 1)) ELSE s

strip(s) == rstrip(lstrip(s))

isna(x) == x = NaN

\* Python truthiness of a string-or-None value (NaN is a float, hence truthy)
truthy(x) == x # Empty /\ x # None

\* dict.get with ids as values: 0 stands for None
dictget(d, k) == IF k \in DOMAIN d THEN d[k] ELSE 0

\* d[k] = v
dictset(d, k, v) == [x \in (DOMAIN d) \cup {k} |-> IF x = k THEN v ELSE d[x]]

emptydict == [x \in {} |-> 0]

\* F(v), with v evaluated once
With(v, F(_)) == CHOOSE r \in {F(x) : x \in {v}} : TRUE

\* list(dict.fromkeys(values)): first-seen order, duplicates removed
RECURSIVE fromkeys(_)
fromkeys(s) ==
    IF s = <<>> THEN <<>>
    ELSE LET last == s[Len(s)]
             add(init) ==
                 IF \E k \in 1..Len(init) : init[k] = last THEN init ELSE Append(init, last)
         IN With(fromkeys(SubSeq(s, 1, Len(s) - 1)), add)

RECURSIVE SeqFilter(_, _)
SeqFilter(s, keep) ==
    IF s = <<>> THEN <<>>
    ELSE IF Head(s) \in keep THEN <<Head(s)>> \o SeqFilter(Tail(s), keep)
    ELSE SeqFilter(Tail(s), keep)

Range(s) == {s[k] : k \in 1..Len(s)}

(***************************************************************************)
(* Bounds of the model.                                                    *)
(***************************************************************************)
MaxRows == 2      \* rows of the group
MaxFaults == 1    \* requests of all runs together answered with user errors or not at all
MaxRuns == 2      \* runs of main over the same rows
MaxGroups == 3    \* row groups (handles) of one run

\* for attempt in range(3)
PollAttempts == 3

VARIABLES
    group_df,     \* the rows of the group, in order
    main_row,     \* the group-level cells of the first row
    remote,       \* the remote catalog's product for the handle
    pc,           \* position of main
    loc,          \* the local variables of main and of the function it is in
    log,          \* the requests this run has issued, in order
    run,          \* number of the current run
    faults,       \* requests so far (all runs) answered with user errors or not at all
    remote0,      \* the remote product as it was when this run began
    prev,         \* the local variables and the requests of the run before this one
    grouped       \* df.groupby('handle'): the groups after this one, and what the loop has done

vars == <<group_df, main_row, remote, pc, loc, log, run, faults, remote0, prev, grouped>>

(***************************************************************************)
(* The remote catalog.  A variant's inventory record carries the variant's *)
(* id; inv says whether that record is visible yet.                        *)
(***************************************************************************)
Variant(id, sku, price, title, selectedOptions, inv) ==
    [id |-> id, sku |-> sku, price |-> price, title |-> title,
     selectedOptions |-> selectedOptions, inv |-> inv]

NoProduct == [exists |-> FALSE, options |-> <<>>, variants |-> <<>>, nextId |-> 1]

\* productCreate: the shell, with the platform's implicit default variant
RemoteProductCreate(r) ==
    [exists |-> TRUE, options |-> <<>>,
     variants |-> <<Variant(r.nextId, None, 0, DefaultTitle, <<>>, FALSE)>>,
     nextId |-> r.nextId + 1]

\* productOptionsCreate: the variants without an option take the first value, and a
\* variant is made for every value that no variant then carries
RemoteOptionsCreate(r, name, values) ==
    LET taken == [k \in 1..Len(r.variants) |->
                     IF r.variants[k].selectedOptions = <<>>
                     THEN [r.variants[k] EXCEPT !.selectedOptions = <<values[1]>>,
                                                !.title = values[1]]
                     ELSE r.variants[k]]
        carried == {v.selectedOptions[1] : v \in Range(taken)}
        fresh == SeqFilter(values, Range(values) \ carried)
        made == [k \in 1..Len(fresh) |->
                    Variant(r.nextId + k - 1, None, 0, fresh[k], <<fresh[k]>>, FALSE)]
    IN [r EXCEPT !.options = Append(@, name),
                 !.variants = taken \o made,
                 !.nextId = @ + Len(fresh)]

\* productVariantsBulkUpdate: the batch's prices, a later entry overriding an earlier one
RECURSIVE RemoteBulkUpdate(_, _)
RemoteBulkUpdate(r, batch) ==
    IF batch = <<>> THEN r
    ELSE RemoteBulkUpdate(
            [r EXCEPT !.variants = [k \in 1..Len(@) |->
                 IF @[k].id = Head(batch).id THEN [@[k] EXCEPT !.price = Head(batch).price]
                 ELSE @[k]]],
            Tail(batch))

\* inventoryItemUpdate: the SKU is stored as sent
RemoteInventoryItemUpdate(r, inventory_item_id, sku) ==
    [r EXCEPT !.variants = [k \in 1..Len(@) |->
         IF @[k].id = inventory_item_id THEN [@[k] EXCEPT !.sku = sku] ELSE @[k]]]

\* productVariantsBulkCreate of one variant
RemoteVariantCreate(r, price, optionValues) ==
    [r EXCEPT !.variants = Append(@,
                 Variant(r.nextId, None, price,
                         IF optionValues = <<>> THEN DefaultTitle ELSE optionValues[1],
                         optionValues, FALSE)),
              !.nextId = @ + 1]

\* the values the platform keeps of those sent: all of them, or, where it treats labels
\* that differ only in letter case as one, the first of each
RECURSIVE first_of_each_label(_)
first_of_each_label(values) ==
    IF values = <<>> THEN <<>>
    ELSE LET init == first_of_each_label(SubSeq(values, 1, Len(values) - 1))
             last == values[Len(values)]
         IN IF \E k \in 1..Len(init) : lower(init[k]) = lower(last) THEN init
            ELSE Append(init, last)

Kept(values) == {values, first_of_each_label(values)}

VariantIds(r) == {v.id : v \in Range(r.variants)}

\* whether the variant's inventory record is visible
HasInventoryItem(r, id) == \E v \in Range(r.variants) : v.id = id /\ v.inv

(***************************************************************************)
(* run_graphql_query: what the transport and the platform can answer, and  *)
(* what the caller gets.                                                   *)
(***************************************************************************)
Answers == {"data", "userErrors", "errors", "http", "network", "json"}

\* the data of the payload, or None
run_graphql_query(answer) ==
    IF answer \in {"network", "http", "json"} THEN "None"     \* except branches
    ELSE IF answer = "errors" THEN "None"                    \* 'errors' in response_data
    ELSE answer

\* the answers the remote side may give to a request of this run
MayAnswer(isMutation) ==
    IF faults < MaxFaults
    THEN IF isMutation THEN Answers ELSE Answers \ {"userErrors"}
    ELSE {"data"}

Fault(answer) == IF answer = "data" THEN 0 ELSE 1

Mutations == {"productCreate", "productOptionsCreate", "productVariantsBulkUpdate",
              "inventoryItemUpdate", "fileCreate", "productUpdateImages", "metafieldsSet",
              "publishablePublish", "productUpdate", "productVariantsBulkCreate"}

Queries == {"productByHandle", "getProductVariants", "getVariant", "getPublications",
            "getProduct"}

\* one request: the operation and what its variables carry: the variant it addresses,
\* option values, a SKU, a price batch, image references, and src, the rows whose SKU or
\* price it carries; answer is what an upload or a query for the product or a variant
\* was answered, and sleep
\* the seconds main sleeps once it has the answer
Request(op) ==
    [op |-> op, src |-> {}, vid |-> 0, vals |-> <<>>, sku |-> Empty, batch |-> <<>>,
     images |-> <<>>, answer |-> "any", sleep |-> 0]

(***************************************************************************)
(* check_product_exists, on the product the query returned.                *)
(***************************************************************************)
\* default_variant_id taken without looking at the declared options
RECURSIVE default_variant_id_any_options(_, _)
default_variant_id_any_options(product_data, n) ==
    IF n = 0 THEN 0
    ELSE LET variant_node == product_data.variants[n]
         IN IF Len(product_data.variants) = 1 THEN variant_node.id
            ELSE IF variant_node.title = DefaultTitle THEN variant_node.id
            ELSE default_variant_id_any_options(product_data, n - 1)

\* default_variant_id after the loop over the first n variants
RECURSIVE default_variant_id_of(_, _)
default_variant_id_of(product_data, n) ==
    IF n = 0 THEN 0
    ELSE LET variant_node == product_data.variants[n]
             has_options == Len(product_data.options) > 0
         IN IF ~has_options /\ Len(product_data.variants) = 1 THEN variant_node.id
            ELSE IF variant_node.title = DefaultTitle /\ ~has_options THEN variant_node.id
            ELSE default_variant_id_of(product_data, n - 1)

\* the variants dict with its keys case-folded as well as trimmed
RECURSIVE variants_by_sku_folded(_, _)
variants_by_sku_folded(product_data, n) ==
    IF n = 0 THEN emptydict
    ELSE LET variant_node == product_data.variants[n]
             before == variants_by_sku_folded(product_data, n - 1)
         IN IF truthy(variant_node.sku)
            THEN dictset(before, lower(strip(variant_node.sku)), variant_node.id)
            ELSE before

\* the variants dict after the loop over the first n variants
RECURSIVE variants_by_sku(_, _)
variants_by_sku(product_data, n) ==
    IF n = 0 THEN emptydict
    ELSE LET variant_node == product_data.variants[n]
             before == variants_by_sku(product_data, n - 1)
         IN IF truthy(variant_node.sku)
            THEN dictset(before, strip(variant_node.sku), variant_node.id)
            ELSE before

\* the tuple check_product_exists returns
check_product_exists_result(data, product_data) ==
    IF data # "None" /\ product_data.exists
    THEN [product_id |-> 1,
          existing_variants |-> variants_by_sku(product_data, Len(product_data.variants)),
          existing_options |-> product_data.options,
          default_variant_id |-> default_variant_id_of(product_data, Len(product_data.variants))]
    ELSE [product_id |-> 0, existing_variants |-> emptydict, existing_options |-> <<>>,
          default_variant_id |-> 0]

(***************************************************************************)
(* The local variables, before check_product_exists.                       *)
(***************************************************************************)
InitLoc ==
    [product_id |-> 0, existing_variants |-> emptydict, existing_options |-> <<>>,
     default_variant_id |-> 0,
     path |-> "none",            \* "create": create_product_with_variants, "update": the else branch
     option_name |-> None, option_values |-> <<>>,
     core_updated |-> FALSE,     \* update_product saw a product in the response
     routes |-> <<>>,            \* main's decision for each SKU row
     i |-> 0,                    \* row of the loop
     variant_id |-> 0, inventory_item_id |-> 0,
     attempt |-> 0, have_data |-> FALSE, existing_variants_data |-> <<>>,
     variants_to_update |-> <<>>, variant_sku_map |-> emptydict,
     updated_variants |-> <<>>, k |-> 0,
     j |-> 0, image_ids |-> <<>>, m |-> 0,
     published |-> FALSE,        \* line 656: the publish mutation answered without user errors
     returned |-> "none"]        \* what create_product_with_variants returned

blank(sku) == ~truthy(sku) \/ isna(sku)

\* option_name as main and create_product_with_variants derive it from the first row
option_name_of(row) ==
    IF ~isna(row.variant_option1_name) THEN strip(row.variant_option1_name) ELSE None

\* [str(row['variant_option1_value']) for rows whose value is not missing]
RECURSIVE option_values_of(_)
option_values_of(rows) ==
    IF rows = <<>> THEN <<>>
    ELSE (IF ~isna(Head(rows).variant_option1_value)
          THEN <<Head(rows).variant_option1_value>> ELSE <<>>)
         \o option_values_of(Tail(rows))

At(p, l) == [pc |-> p, loc |-> l]

\* the loop over the rows looking every SKU up as it is written in the row
RECURSIVE row_loop_untrimmed(_, _)
row_loop_untrimmed(l, from) ==
    IF from > Len(group_df) THEN At("finished", l)
    ELSE LET row == group_df[from]
             variant_id == dictget(l.existing_variants, row.variant_sku)
         IN IF blank(row.variant_sku) THEN row_loop_untrimmed(l, from + 1)
            ELSE IF variant_id = 0
            THEN LET l1 == [l EXCEPT !.i = from,
                                     !.routes = Append(@, [row |-> from, call |-> "create_variant",
                                                           variant_id |-> 0])]
                 IN IF ~truthy(l.option_name) /\ l.default_variant_id # 0
                    THEN At("update_variant", [l1 EXCEPT !.variant_id = l.default_variant_id])
                    ELSE At("create_variant", l1)
            ELSE At("update_variant",
                    [l EXCEPT !.i = from, !.variant_id = variant_id,
                              !.routes = Append(@, [row |-> from, call |-> "update_variant",
                                                    variant_id |-> variant_id])])

\* the loop over the rows with create_variant never falling back on the default variant
RECURSIVE row_loop_always_create(_, _)
row_loop_always_create(l, from) ==
    IF from > Len(group_df) THEN At("finished", l)
    ELSE LET row == group_df[from]
             variant_id == dictget(l.existing_variants, strip(row.variant_sku))
         IN IF blank(row.variant_sku) THEN row_loop_always_create(l, from + 1)
            ELSE IF variant_id = 0
            THEN At("create_variant",
                    [l EXCEPT !.i = from,
                              !.routes = Append(@, [row |-> from, call |-> "create_variant",
                                                    variant_id |-> 0])])
            ELSE At("update_variant",
                    [l EXCEPT !.i = from, !.variant_id = variant_id,
                              !.routes = Append(@, [row |-> from, call |-> "update_variant",
                                                    variant_id |-> variant_id])])

(***************************************************************************)
(* main, lines 917-929: the loop over the rows of an existing product,     *)
(* from row `from` to the next request.                                    *)
(***************************************************************************)
RECURSIVE row_loop(_, _)
row_loop(l, from) ==
    IF from > Len(group_df) THEN At("finished", l)
    ELSE LET row == group_df[from]
             sku == strip(row.variant_sku)
             variant_id == dictget(l.existing_variants, sku)
         IN IF blank(row.variant_sku) THEN row_loop(l, from + 1)
            ELSE IF variant_id = 0
            THEN LET l1 == [l EXCEPT !.i = from,
                                     !.routes = Append(@, [row |-> from, call |-> "create_variant",
                                                           variant_id |-> 0])]
                 IN IF ~truthy(l.option_name) /\ l.default_variant_id # 0
                    THEN At("update_variant", [l1 EXCEPT !.variant_id = l.default_variant_id])
                    ELSE At("create_variant", l1)
            ELSE At("update_variant",
                    [l EXCEPT !.i = from, !.variant_id = variant_id,
                              !.routes = Append(@, [row |-> from, call |-> "update_variant",
                                                    variant_id |-> variant_id])])

\* main, lines 907-915: after update_product
after_update_product(l) ==
    LET option_name == option_name_of(main_row)
        option_values == option_values_of(group_df)
        l1 == [l EXCEPT !.option_name = option_name, !.option_values = option_values]
    IN IF truthy(option_name) /\ option_values # <<>>
       THEN At("ensure_product_options_exist", l1)
       ELSE row_loop(l1, 1)

(***************************************************************************)
(* add_images_to_product and add_metafields_to_product, between requests.  *)
(* The images cell is the list of its entries between commas; an entry is  *)
(* its text and whether a file of that path exists.                        *)
(***************************************************************************)
Entry(path, exists) == [path |-> path, exists |-> exists]

Http == <<"h", "t", "t", "p", ":", "/", "/">>
Https == <<"h", "t", "t", "p", "s", ":", "/", "/">>

UrlEntry == Entry(Https \o <<"a">>, FALSE)
FileEntry == Entry(<<"a", ".", "p", "n", "g">>, TRUE)

\* str.startswith
startswith(s, prefix) == Len(s) >= Len(prefix) /\ SubSeq(s, 1, Len(prefix)) = prefix

\* what follows the images and metafields of the first row
after_assets(l) ==
    IF l.path = "create" THEN At("publish_product_to_sales_channel", l)
    ELSE after_update_product(l)

\* add_metafields_to_product, from column m on
add_metafields_from(l, m) ==
    IF m > main_row.metafields THEN after_assets(l)
    ELSE At("create_metafield", [l EXCEPT !.m = m])

\* the loop uploading every entry that is no URL, whether or not a file is there
RECURSIVE add_images_from_any_path(_, _)
add_images_from_any_path(l, j) ==
    IF j > Len(main_row.images)
    THEN IF l.image_ids = <<>> THEN add_metafields_from(l, 1)
         ELSE At("add_images_to_product", l)
    ELSE LET image_path == strip(main_row.images[j].path)
         IN IF image_path = Empty THEN add_images_from_any_path(l, j + 1)
            ELSE IF startswith(image_path, Http) \/ startswith(image_path, Https)
            THEN add_images_from_any_path([l EXCEPT !.image_ids = Append(@, j)], j + 1)
            ELSE At("upload_image_to_shopify", [l EXCEPT !.j = j])

\* add_images_to_product, the loop over paths from entry j on
RECURSIVE add_images_from(_, _)
add_images_from(l, j) ==
    IF j > Len(main_row.images)
    THEN IF l.image_ids = <<>> THEN add_metafields_from(l, 1)
         ELSE At("add_images_to_product", l)
    ELSE LET image_path == strip(main_row.images[j].path)
         IN IF image_path = Empty THEN add_images_from(l, j + 1)       \* line 136
            ELSE IF startswith(image_path, Http) \/ startswith(image_path, Https)
            THEN add_images_from([l EXCEPT !.image_ids = Append(@, j)], j + 1)
            ELSE IF main_row.images[j].exists                          \* line 68
            THEN At("upload_image_to_shopify", [l EXCEPT !.j = j])
            ELSE add_images_from(l, j + 1)

\* the images, then the metafields, of the first row
assets(l) == add_images_from([l EXCEPT !.image_ids = <<>>], 1)

(***************************************************************************)
(* create_product_with_variants, between requests.                         *)
(***************************************************************************)
\* lines 436-455: the option value -> variant id index over the first n variants
RECURSIVE variants_map_of(_, _)
variants_map_of(edges, n) ==
    IF n = 0 THEN emptydict
    ELSE LET variant == edges[n]
             add(before) ==
                 IF Len(variant.selectedOptions) > 0
                 THEN LET option_value == strip(variant.selectedOptions[1])
                      IN With(dictset(before, option_value, variant.id),
                              LAMBDA exact : dictset(exact, lower(option_value), variant.id))
                 ELSE before
         IN With(variants_map_of(edges, n - 1), add)

\* variant_inventory_map, as the set of variants whose inventory record the poll saw
variant_inventory_map_of(edges) == {v.id : v \in {w \in Range(edges) : w.inv}}

\* the lookup without its case-folded second try
match_option_value_exact_only(variants_map, option_value) ==
    dictget(variants_map, option_value)

\* line 472: exact first, then case-folded
match_option_value(variants_map, option_value) ==
    IF dictget(variants_map, option_value) # 0 THEN dictget(variants_map, option_value)
    ELSE dictget(variants_map, lower(option_value))

\* lines 488-493: the first variant without selected options, 0 if none
default_variant_of(edges) ==
    IF \E n \in 1..Len(edges) : Len(edges[n].selectedOptions) = 0
    THEN edges[CHOOSE n \in 1..Len(edges) :
                  /\ Len(edges[n].selectedOptions) = 0
                  /\ \A q \in 1..(n - 1) : Len(edges[q].selectedOptions) # 0].id
    ELSE 0

\* the variant a SKU row resolves to by its option value alone
resolve_row_no_default(l, row) ==
    LET option_value == IF truthy(l.option_name) /\ ~isna(row.variant_option1_value)
                        THEN strip(row.variant_option1_value) ELSE None
    IN IF truthy(option_value)
       THEN match_option_value(variants_map_of(l.existing_variants_data,
                                               Len(l.existing_variants_data)), option_value)
       ELSE 0

\* the variant a SKU row resolves to, with the default variant for every row without one
resolve_row_default_always(l, row) ==
    LET option_value == IF truthy(l.option_name) /\ ~isna(row.variant_option1_value)
                        THEN strip(row.variant_option1_value) ELSE None
        variant_id == IF truthy(option_value)
                      THEN With(variants_map_of(l.existing_variants_data,
                                                Len(l.existing_variants_data)),
                                LAMBDA variants_map :
                                    With(option_value,
                                         LAMBDA value : match_option_value(variants_map, value)))
                      ELSE 0
    IN With(variant_id,
            LAMBDA id : IF id # 0 THEN id
                        ELSE IF l.have_data
                        THEN default_variant_of(l.existing_variants_data)
                        ELSE 0)

\* lines 466-506: the variant a SKU row resolves to, 0 if none
resolve_row(l, row) ==
    LET option_value == IF truthy(l.option_name) /\ ~isna(row.variant_option1_value)
                        THEN strip(row.variant_option1_value) ELSE None
        variant_id == IF truthy(option_value)
                      THEN With(variants_map_of(l.existing_variants_data,
                                                Len(l.existing_variants_data)),
                                LAMBDA variants_map :
                                    With(option_value,
                                         LAMBDA value : match_option_value(variants_map, value)))
                      ELSE 0
    IN With(variant_id,
            LAMBDA id : IF id # 0 THEN id
                        ELSE IF ~truthy(l.option_name) /\ l.have_data
                        THEN default_variant_of(l.existing_variants_data)
                        ELSE 0)

\* variants_to_update with the first row's price in every entry
RECURSIVE collect_updates_first_price(_, _)
collect_updates_first_price(l, n) ==
    IF n = 0 THEN [variants_to_update |-> <<>>, variant_sku_map |-> emptydict]
    ELSE LET before == collect_updates_first_price(l, n - 1)
             row == group_df[n]
             variant_id == resolve_row(l, row)
             known == variant_inventory_map_of(l.existing_variants_data)
         IN IF blank(row.variant_sku) \/ variant_id = 0 THEN before
            ELSE [variants_to_update |->
                      Append(before.variants_to_update,
                             [id |-> variant_id, price |-> group_df[1].variant_price, row |-> n]),
                  variant_sku_map |->
                      dictset(before.variant_sku_map, variant_id,
                              [inventory_item_id |-> IF variant_id \in known THEN variant_id ELSE 0,
                               sku |-> row.variant_sku, row |-> n])]

\* lines 457-506: variants_to_update and variant_sku_map after the first n rows
RECURSIVE collect_updates(_, _)
collect_updates(l, n) ==
    IF n = 0 THEN [variants_to_update |-> <<>>, variant_sku_map |-> emptydict]
    ELSE LET row == group_df[n]
             known == variant_inventory_map_of(l.existing_variants_data)
             add(before, variant_id) ==
                 IF blank(row.variant_sku) \/ variant_id = 0 THEN before
                 ELSE [variants_to_update |->
                           Append(before.variants_to_update,
                                  [id |-> variant_id, price |-> row.variant_price, row |-> n]),
                       variant_sku_map |->
                           dictset(before.variant_sku_map, variant_id,
                                   [inventory_item_id |->
                                        IF variant_id \in known THEN variant_id ELSE 0,
                                    sku |-> row.variant_sku, row |-> n])]
         IN With(collect_updates(l, n - 1),
                 LAMBDA before : With(resolve_row(l, row),
                                      LAMBDA variant_id : add(before, variant_id)))

\* the SKU backfill asking for the inventory record of every updated variant
backfill_from_requery_always(l, k) ==
    IF k > Len(l.updated_variants) THEN assets(l)
    ELSE LET variant_id == l.updated_variants[k]
             entry == l.variant_sku_map[variant_id]
         IN At("update_variant_sku",
               [l EXCEPT !.k = k, !.variant_id = variant_id,
                         !.inventory_item_id = entry.inventory_item_id])

\* lines 532-543: the SKU backfill, from updated variant k on
backfill_from(l, k) ==
    IF k > Len(l.updated_variants) THEN assets(l)
    ELSE LET variant_id == l.updated_variants[k]
             entry == l.variant_sku_map[variant_id]
             l1 == [l EXCEPT !.k = k, !.variant_id = variant_id,
                             !.inventory_item_id = entry.inventory_item_id]
         IN IF entry.inventory_item_id # 0 THEN At("update_variant_sku_individual", l1)
            ELSE At("update_variant_sku", l1)

\* lines 436-508: after the poll
after_poll(l) ==
    LET next(got) ==
            LET l1 == [l EXCEPT !.variants_to_update = got.variants_to_update,
                                !.variant_sku_map = got.variant_sku_map]
            IN IF got.variants_to_update # <<>> THEN At("productVariantsBulkUpdate", l1)
               ELSE assets(l1)
    IN With(With(l, LAMBDA at : collect_updates(at, Len(group_df))), next)

\* where update_variant_sku and update_variant_sku_individual return to
after_sku(l) ==
    IF l.path = "create" THEN backfill_from(l, l.k + 1)
    ELSE row_loop(l, l.i + 1)

\* the SKU a write of update_variant_sku carries, and the row it is from
sku_row(l) == IF l.path = "create" THEN l.variant_sku_map[l.variant_id].row ELSE l.i

(***************************************************************************)
(* The steps: one per call of run_graphql_query, with the code that        *)
(* follows it up to the next call.                                         *)
(***************************************************************************)
Do(request, fault, r, next) ==
    /\ log' = Append(log, request)
    /\ faults' = faults + fault
    /\ remote' = r
    /\ \E at \in {next} : pc' = at.pc /\ loc' = at.loc
    /\ UNCHANGED <<group_df, main_row, run, remote0, prev, grouped>>

\* main, lines 895-905, and check_product_exists
check_product_exists ==
    /\ pc = "check_product_exists"
    /\ \E answer \in MayAnswer(FALSE) :
         LET got == check_product_exists_result(run_graphql_query(answer), remote)
             l1 == [loc EXCEPT !.product_id = got.product_id,
                               !.existing_variants = got.existing_variants,
                               !.existing_options = got.existing_options,
                               !.default_variant_id = got.default_variant_id]
         IN Do([Request("productByHandle") EXCEPT !.answer = run_graphql_query(answer)],
               Fault(answer), remote,
               IF got.product_id = 0
               THEN At("productCreate", [l1 EXCEPT !.path = "create"])
               ELSE At("update_product", [l1 EXCEPT !.path = "update"]))

\* create_product_with_variants going on after a failed productCreate
productCreate_failure_ignored ==
    /\ pc = "productCreate"
    /\ \E answer \in (IF remote.exists THEN (MayAnswer(TRUE) \ {"data"}) \cup {"userErrors"}
                      ELSE MayAnswer(TRUE)) :
         LET data == run_graphql_query(answer)
             l1 == [loc EXCEPT !.product_id = 1, !.option_name = option_name_of(main_row),
                               !.option_values = fromkeys(option_values_of(group_df)),
                               !.attempt = 0,
                               !.returned = IF data = "data" THEN @ ELSE "None"]
         IN Do(Request("productCreate"),
               IF remote.exists THEN 0 ELSE Fault(answer),
               IF data = "data" THEN RemoteProductCreate(remote) ELSE remote,
               At("getProductVariants", l1))

\* create_product_with_variants, lines 312-358: the shell.  A handle is unique, so the
\* platform makes no second product for it.
productCreate ==
    /\ pc = "productCreate"
    /\ \E answer \in (IF remote.exists THEN (MayAnswer(TRUE) \ {"data"}) \cup {"userErrors"}
                      ELSE MayAnswer(TRUE)) :
         LET data == run_graphql_query(answer)
             option_name == option_name_of(main_row)
             unique_values == fromkeys(option_values_of(group_df))
             l1 == [loc EXCEPT !.product_id = 1, !.option_name = option_name,
                               !.option_values = unique_values, !.attempt = 0]
         IN Do(Request("productCreate"),
               IF remote.exists THEN 0 ELSE Fault(answer),
               IF data = "data" THEN RemoteProductCreate(remote) ELSE remote,
               IF data # "data" THEN At("finished", [loc EXCEPT !.returned = "None"])
               ELSE IF truthy(option_name) /\ unique_values # <<>>
               THEN At("productOptionsCreate", l1)
               ELSE At("getProductVariants", l1))

\* create_product_with_variants, lines 358-394
productOptionsCreate ==
    /\ pc = "productOptionsCreate"
    /\ \E answer \in MayAnswer(TRUE), kept \in Kept(loc.option_values) :
         Do([Request("productOptionsCreate") EXCEPT
                 !.vals = loc.option_values,
                 !.sleep = IF run_graphql_query(answer) = "data" THEN 2 ELSE 0],   \* line 394
            Fault(answer),
            IF run_graphql_query(answer) = "data"
            THEN RemoteOptionsCreate(remote, loc.option_name, kept)
            ELSE remote,
            At("getProductVariants", loc))

\* the poll sleeping after every attempt that saw no inventory record
getProductVariants_sleep_after_last ==
    /\ pc = "getProductVariants"
    /\ \E answer \in MayAnswer(FALSE) :
         LET data == run_graphql_query(answer)
             l1 == [loc EXCEPT !.have_data = (data = "data"),
                               !.existing_variants_data =
                                   IF data = "data" THEN remote.variants ELSE <<>>]
             has_inventory_items == data = "data" /\ \E v \in Range(remote.variants) : v.inv
         IN Do([Request("getProductVariants") EXCEPT
                    !.answer = IF has_inventory_items THEN "inventory"
                               ELSE IF data = "data" THEN "no inventory" ELSE "None",
                    !.sleep = IF ~has_inventory_items THEN 2 ELSE 0],
               Fault(answer), remote,
               IF has_inventory_items \/ loc.attempt + 1 >= PollAttempts
               THEN after_poll(l1)
               ELSE At("getProductVariants", [l1 EXCEPT !.attempt = @ + 1]))

\* the poll asking again as long as no inventory record is visible and a request failed
getProductVariants_again_on_failure ==
    /\ pc = "getProductVariants"
    /\ \E answer \in MayAnswer(FALSE) :
         LET data == run_graphql_query(answer)
             l1 == [loc EXCEPT !.have_data = (data = "data"),
                               !.existing_variants_data =
                                   IF data = "data" THEN remote.variants ELSE <<>>]
             has_inventory_items == data = "data" /\ \E v \in Range(remote.variants) : v.inv
         IN Do([Request("getProductVariants") EXCEPT
                    !.answer = IF has_inventory_items THEN "inventory"
                               ELSE IF data = "data" THEN "no inventory" ELSE "None",
                    !.sleep = IF ~has_inventory_items /\ loc.attempt < 2 THEN 2 ELSE 0],
               Fault(answer), remote,
               IF has_inventory_items \/ (loc.attempt + 1 >= PollAttempts /\ data = "data")
               THEN after_poll(l1)
               ELSE At("getProductVariants", [l1 EXCEPT !.attempt = @ + 1]))

\* create_product_with_variants, lines 420-434: one attempt of the poll
getProductVariants ==
    /\ pc = "getProductVariants"
    /\ \E answer \in MayAnswer(FALSE) :
         LET data == run_graphql_query(answer)
             l1 == [loc EXCEPT !.have_data = (data = "data"),
                               !.existing_variants_data =
                                   IF data = "data" THEN remote.variants ELSE <<>>]
             has_inventory_items == data = "data" /\ \E v \in Range(remote.variants) : v.inv
         IN Do([Request("getProductVariants") EXCEPT
                    !.answer = IF has_inventory_items THEN "inventory"
                               ELSE IF data = "data" THEN "no inventory" ELSE "None",
                    !.sleep = IF ~has_inventory_items /\ loc.attempt < 2 THEN 2 ELSE 0],
               Fault(answer), remote,
               IF has_inventory_items \/ loc.attempt + 1 >= PollAttempts
               THEN after_poll(l1)
               ELSE At("getProductVariants", [l1 EXCEPT !.attempt = @ + 1]))

\* the price update returning the product id at once when it is not answered
productVariantsBulkUpdate_return_on_failure ==
    /\ pc = "productVariantsBulkUpdate"
    /\ \E answer \in MayAnswer(TRUE) :
         LET data == run_graphql_query(answer)
             ids == [n \in 1..Len(loc.variants_to_update) |-> loc.variants_to_update[n].id]
         IN Do([Request("productVariantsBulkUpdate") EXCEPT
                    !.batch = loc.variants_to_update,
                    !.src = {e.row : e \in Range(loc.variants_to_update)}],
               Fault(answer),
               IF data = "data" THEN RemoteBulkUpdate(remote, loc.variants_to_update) ELSE remote,
               IF data = "data"
               THEN backfill_from([loc EXCEPT !.updated_variants = fromkeys(ids)], 1)
               ELSE At("finished", [loc EXCEPT !.returned = "product_id"]))

\* create_product_with_variants, lines 508-543: the one bulk price update
productVariantsBulkUpdate ==
    /\ pc = "productVariantsBulkUpdate"
    /\ \E answer \in MayAnswer(TRUE) :
         LET data == run_graphql_query(answer)
             ids == [n \in 1..Len(loc.variants_to_update) |-> loc.variants_to_update[n].id]
         IN Do([Request("productVariantsBulkUpdate") EXCEPT
                    !.batch = loc.variants_to_update,
                    !.src = {e.row : e \in Range(loc.variants_to_update)}],
               Fault(answer),
               IF data = "data" THEN RemoteBulkUpdate(remote, loc.variants_to_update) ELSE remote,
               IF data = "data"
               THEN backfill_from([loc EXCEPT !.updated_variants = fromkeys(ids)], 1)
               ELSE assets(loc))

\* the SKU update_variant_sku was called with
sku_arg(l) ==
    IF l.path = "create" THEN l.variant_sku_map[l.variant_id].sku
    ELSE group_df[l.i].variant_sku

\* update_variant_sku: the query for the variant's inventory record
update_variant_sku ==
    /\ pc = "update_variant_sku"
    /\ \E answer \in MayAnswer(FALSE) :
         Do([Request("getVariant") EXCEPT
                 !.vid = loc.variant_id,
                 !.answer = IF run_graphql_query(answer) # "data" THEN "None"
                            ELSE IF HasInventoryItem(remote, loc.variant_id) THEN "inventory"
                            ELSE "no inventory"],
            Fault(answer), remote,
            IF run_graphql_query(answer) = "data" /\ HasInventoryItem(remote, loc.variant_id)
            THEN At("update_variant_sku_individual",
                    [loc EXCEPT !.inventory_item_id = loc.variant_id])
            ELSE after_sku(loc))

\* update_variant_sku_individual: the SKU write on the inventory record
update_variant_sku_individual ==
    /\ pc = "update_variant_sku_individual"
    /\ \E answer \in MayAnswer(TRUE) :
         Do([Request("inventoryItemUpdate") EXCEPT !.vid = loc.inventory_item_id,
                                                    !.sku = sku_arg(loc),
                                                    !.src = {sku_row(loc)}],
            Fault(answer),
            IF run_graphql_query(answer) = "data"
            THEN RemoteInventoryItemUpdate(remote, loc.inventory_item_id, sku_arg(loc))
            ELSE remote,
            after_sku(loc))

\* upload_image_to_shopify, for a local file that exists
upload_image_to_shopify ==
    /\ pc = "upload_image_to_shopify"
    /\ \E answer \in MayAnswer(TRUE), image \in BOOLEAN :
         LET got == IF run_graphql_query(answer) # "data" THEN run_graphql_query(answer)
                    ELSE IF image THEN "image" ELSE "no image"
         IN Do([Request("fileCreate") EXCEPT !.images = <<loc.j>>, !.answer = got],
               Fault(answer), remote,
               add_images_from(IF got = "image"
                               THEN [loc EXCEPT !.image_ids = Append(@, loc.j)] ELSE loc,
                               loc.j + 1))

\* add_images_to_product, lines 151-185: the one attach call
add_images_to_product ==
    /\ pc = "add_images_to_product"
    /\ \E answer \in MayAnswer(TRUE) :
         Do([Request("productUpdateImages") EXCEPT !.images = loc.image_ids],
            Fault(answer), remote, add_metafields_from(loc, 1))

\* create_metafield, for one metafield column of the first row
create_metafield ==
    /\ pc = "create_metafield"
    /\ \E answer \in MayAnswer(TRUE) :
         Do(Request("metafieldsSet"), Fault(answer), remote,
            add_metafields_from(loc, loc.m + 1))

\* line 603: publications(first: 10)
PublicationsFirst == 10

\* the first n elements of s
First(n, s) == SubSeq(s, 1, IF Len(s) < n THEN Len(s) ELSE n)

\* the sales channels of the shop, by name and in the order the platform lists them: none,
\* 'Online Store' after another, near misses of the name, 'Online Store' as the eleventh
Publications ==
    {<<>>,
     <<"Point of Sale", "Online Store">>,
     <<"online store", "Online Store ">>,
     [n \in 1..PublicationsFirst |-> "Point of Sale"] \o <<"Online Store">>}

\* the publish mutation for the first channel listed, whatever its name
publish_product_to_sales_channel_first_listed ==
    /\ pc = "publish_product_to_sales_channel"
    /\ \E answer \in MayAnswer(FALSE), channels \in Publications :
         LET edges == IF run_graphql_query(answer) = "data"
                      THEN First(PublicationsFirst, channels) ELSE <<>>
         IN Do([Request("getPublications") EXCEPT !.vals = edges], Fault(answer), remote,
               IF edges # <<>>
               THEN At("publishablePublish", loc)
               ELSE At("finished", [loc EXCEPT !.returned = "product_id"]))

\* publish_product_to_sales_channel, lines 614-625: the channel listing
publish_product_to_sales_channel ==
    /\ pc = "publish_product_to_sales_channel"
    /\ \E answer \in MayAnswer(FALSE), channels \in Publications :
         LET edges == IF run_graphql_query(answer) = "data"
                      THEN First(PublicationsFirst, channels) ELSE <<>>
         IN Do([Request("getPublications") EXCEPT !.vals = edges], Fault(answer), remote,
               IF \E n \in 1..Len(edges) : edges[n] = "Online Store"
               THEN At("publishablePublish", loc)
               ELSE At("finished", [loc EXCEPT !.returned = "product_id"]))

\* publish_product_to_sales_channel, lines 627-658: the publish mutation
publishablePublish ==
    /\ pc = "publishablePublish"
    /\ \E answer \in MayAnswer(TRUE) :
         Do(Request("publishablePublish"), Fault(answer), remote,
            At("finished", [loc EXCEPT !.returned = "product_id",
                                       !.published = run_graphql_query(answer) = "data"]))

\* update_product attaching the images and metafields whatever the answer
update_product_assets_always ==
    /\ pc = "update_product"
    /\ \E answer \in MayAnswer(TRUE) :
         Do(Request("productUpdate"), Fault(answer), remote,
            assets([loc EXCEPT !.core_updated = run_graphql_query(answer) = "data"]))

\* update_product: the core fields of the first row
update_product ==
    /\ pc = "update_product"
    /\ \E answer \in MayAnswer(TRUE) :
         Do(Request("productUpdate"), Fault(answer), remote,
            IF run_graphql_query(answer) = "data"
            THEN assets([loc EXCEPT !.core_updated = TRUE])
            ELSE after_update_product(loc))

\* ensure_product_options_exist, lines 664-683: the query for the option names
ensure_product_options_exist ==
    /\ pc = "ensure_product_options_exist"
    /\ \E answer \in MayAnswer(FALSE) :
         LET existing_option_names ==
                 IF run_graphql_query(answer) = "data" THEN remote.options ELSE <<>>
         IN Do([Request("getProduct") EXCEPT !.answer = run_graphql_query(answer)],
               Fault(answer), remote,
               IF loc.option_name \notin Range(existing_option_names)
               THEN At("ensure_productOptionsCreate", loc)
               ELSE row_loop(loc, 1))

\* ensure_product_options_exist, lines 684-721.  The platform has one option of a name.
ensure_productOptionsCreate ==
    /\ pc = "ensure_productOptionsCreate"
    /\ \E answer \in (IF loc.option_name \in Range(remote.options)
                      THEN (MayAnswer(TRUE) \ {"data"}) \cup {"userErrors"}
                      ELSE MayAnswer(TRUE)),
          kept \in Kept(fromkeys(loc.option_values)) :
         LET unique_values == fromkeys(loc.option_values)
         IN Do([Request("productOptionsCreate") EXCEPT !.vals = unique_values],
               IF loc.option_name \in Range(remote.options) THEN 0 ELSE Fault(answer),
               IF run_graphql_query(answer) = "data"
               THEN RemoteOptionsCreate(remote, loc.option_name, kept)
               ELSE remote,
               row_loop(loc, 1))

\* update_variant sending the price and leaving the SKU alone
update_variant_price_only ==
    /\ pc = "update_variant"
    /\ \E answer \in MayAnswer(TRUE) :
         LET variant_input == [id |-> loc.variant_id,
                               price |-> group_df[loc.i].variant_price, row |-> loc.i]
             data == run_graphql_query(answer)
         IN Do([Request("productVariantsBulkUpdate") EXCEPT !.batch = <<variant_input>>,
                                                             !.vid = loc.variant_id,
                                                             !.src = {loc.i},
                                                             !.answer = data],
               Fault(answer),
               IF data = "data" THEN RemoteBulkUpdate(remote, <<variant_input>>) ELSE remote,
               after_sku(loc))

\* update_variant: the price of one variant, then its SKU
update_variant ==
    /\ pc = "update_variant"
    /\ \E answer \in MayAnswer(TRUE) :
         LET variant_input == [id |-> loc.variant_id,
                               price |-> group_df[loc.i].variant_price, row |-> loc.i]
             data == run_graphql_query(answer)
         IN Do([Request("productVariantsBulkUpdate") EXCEPT !.batch = <<variant_input>>,
                                                             !.vid = loc.variant_id,
                                                             !.src = {loc.i},
                                                             !.answer = data],
               Fault(answer),
               IF data = "data" THEN RemoteBulkUpdate(remote, <<variant_input>>) ELSE remote,
               IF data = "data" THEN At("update_variant_sku", loc) ELSE after_sku(loc))

\* create_variant sending the price alone, without the row's option value
create_variant_unscoped ==
    /\ pc = "create_variant"
    /\ \E answer \in MayAnswer(TRUE) :
         LET row == group_df[loc.i]
             data == run_graphql_query(answer)
         IN Do([Request("productVariantsBulkCreate") EXCEPT !.src = {loc.i}],
               Fault(answer),
               IF data = "data" THEN RemoteVariantCreate(remote, row.variant_price, <<>>)
               ELSE remote,
               IF data = "data"
               THEN At("update_variant_sku", [loc EXCEPT !.variant_id = remote.nextId])
               ELSE after_sku(loc))

\* create_variant, lines 792-838: a new variant for the row, then its SKU
create_variant ==
    /\ pc = "create_variant"
    /\ \E answer \in MayAnswer(TRUE) :
         LET row == group_df[loc.i]
             optionValues == IF truthy(loc.option_name) /\ ~isna(row.variant_option1_value)
                             THEN <<row.variant_option1_value>> ELSE <<>>
             data == run_graphql_query(answer)
         IN Do([Request("productVariantsBulkCreate") EXCEPT
                    !.vals = optionValues, !.src = {loc.i},
                    !.sleep = IF data = "data" THEN 2 ELSE 0],                    \* line 832
               Fault(answer),
               IF data = "data" THEN RemoteVariantCreate(remote, row.variant_price, optionValues)
               ELSE remote,
               IF data = "data"
               THEN At("update_variant_sku", [loc EXCEPT !.variant_id = remote.nextId])
               ELSE after_sku(loc))

\* the platform provisions the inventory record of a variant; the code sees the
\* record only in the answers to getProductVariants and getVariant
Provision ==
    /\ pc \in {"getProductVariants", "update_variant_sku"}
    /\ \E n \in 1..Len(remote.variants) :
         /\ ~remote.variants[n].inv
         /\ remote' = [remote EXCEPT !.variants[n].inv = TRUE]
    /\ UNCHANGED <<group_df, main_row, pc, loc, log, run, faults, remote0, prev, grouped>>

\* every inventory record has become visible
Settled(r) == [r EXCEPT !.variants = [k \in 1..Len(@) |-> [@[k] EXCEPT !.inv = TRUE]]]

\* main is run again over the same rows, at once or after the platform has settled
NextRun ==
    /\ pc = "finished"
    /\ run < MaxRuns
    /\ run' = run + 1
    /\ pc' = "check_product_exists"
    /\ loc' = InitLoc
    /\ log' = <<>>
    /\ prev' = [loc |-> loc, log |-> log]
    /\ \E r \in {remote, Settled(remote)} : remote' = r /\ remote0' = r
    /\ UNCHANGED <<group_df, main_row, faults, grouped>>

(***************************************************************************)
(* main, lines 890-931: the loop over the groups.  handle is the position  *)
(* of the current group, rest holds the groups after it, each with the     *)
(* remote product of its handle, issued the requests of the groups before  *)
(* it and skipped the groups whose creation failed.                        *)
(***************************************************************************)
OneGroup == [handle |-> 1, rest |-> <<>>, issued |-> <<>>, skipped |-> {}]

\* the requests of a group in their order, each with its group and whether it is the
\* lookup of the handle
IssuedFor(handle, requests) ==
    [n \in 1..Len(requests) |->
        [handle |-> handle, lookup |-> requests[n].op = "productByHandle"]]

\* the loop ending at the first group whose creation failed
NextGroup_break_on_failure ==
    /\ pc = "finished"
    /\ grouped.rest # <<>>
    /\ loc.returned # "None"
    /\ group_df' = Head(grouped.rest).group_df
    /\ main_row' = Head(grouped.rest).main_row
    /\ remote' = Head(grouped.rest).remote
    /\ remote0' = Head(grouped.rest).remote
    /\ pc' = "check_product_exists"
    /\ loc' = InitLoc
    /\ log' = <<>>
    /\ grouped' = [grouped EXCEPT !.handle = @ + 1, !.rest = Tail(@),
                                  !.issued = @ \o IssuedFor(grouped.handle, log)]
    /\ UNCHANGED <<run, faults, prev>>

\* the next iteration of `for handle, group_df in grouped`, after 'Finished Product' or
\* after the continue of line 903
NextGroup ==
    /\ pc = "finished"
    /\ grouped.rest # <<>>
    /\ group_df' = Head(grouped.rest).group_df
    /\ main_row' = Head(grouped.rest).main_row
    /\ remote' = Head(grouped.rest).remote
    /\ remote0' = Head(grouped.rest).remote
    /\ pc' = "check_product_exists"
    /\ loc' = InitLoc
    /\ log' = <<>>
    /\ grouped' = [grouped EXCEPT !.handle = @ + 1, !.rest = Tail(@),
                                  !.issued = @ \o IssuedFor(grouped.handle, log),
                                  !.skipped = IF loc.returned = "None"
                                              THEN @ \cup {grouped.handle} ELSE @]
    /\ UNCHANGED <<run, faults, prev>>

(***************************************************************************)
(* The rows and the remote products the runs start from.                   *)
(***************************************************************************)
Row(sku, price, value) ==
    [variant_sku |-> sku, variant_price |-> price, variant_option1_value |-> value]

\* the groups of n rows over the given cells; row k has price 10 + k
RECURSIVE Groups(_, _, _)
Groups(n, skus, values) ==
    IF n = 0 THEN {<<>>}
    ELSE {Append(g, Row(sku, 10 + n, value)) :
             g \in Groups(n - 1, skus, values), sku \in skus, value \in values}

GroupsUpTo(n, skus, values) == UNION {Groups(k, skus, values) : k \in 1..n}

MainRows ==
    {[variant_option1_name |-> name, images |-> a[1], metafields |-> a[2]] :
        name \in {NaN, Size}, a \in {<<<<>>, 0>>, <<<<UrlEntry, FileEntry>>, 1>>}}

\* existing products: stored SKUs with and without padding, with and without an option
StoredVariants ==
    {Variant(0, sku, 9, t[1], t[2], TRUE) :
        sku \in {None, ABC1, PadABC1}, t \in {<<DefaultTitle, <<>>>>, <<Small, <<Small>>>>}}

Product(options, variants) ==
    [exists |-> TRUE, options |-> options,
     variants |-> [k \in 1..Len(variants) |-> [variants[k] EXCEPT !.id = k]],
     nextId |-> Len(variants) + 1]

Products ==
    {Product(IF v.selectedOptions = <<>> THEN <<>> ELSE <<Size>>, <<v>>) : v \in StoredVariants}
    \cup {Product(<<>>, <<Variant(0, ABC1, 9, DefaultTitle, <<>>, TRUE),
                          Variant(0, None, 9, DefaultTitle, <<>>, TRUE)>>),
          Product(<<Size>>, <<Variant(0, PadABC1, 9, Large, <<Large>>, TRUE),
                              Variant(0, None, 9, Small, <<Small>>, TRUE)>>)}

InitWith(groups, mains, remotes) ==
    /\ group_df \in groups
    /\ main_row \in mains
    /\ remote \in remotes
    /\ remote0 = remote
    /\ pc = "check_product_exists"
    /\ loc = InitLoc
    /\ log = <<>>
    /\ run = 1
    /\ faults = 0
    /\ prev = [loc |-> InitLoc, log |-> <<>>]
    /\ grouped = OneGroup

\* a new handle, or an existing product
Init ==
    \/ InitWith(GroupsUpTo(MaxRows, {NaN, ABC1, abc1}, {NaN, Small, small, Large}),
                MainRows, {NoProduct})
    \/ InitWith(GroupsUpTo(MaxRows, {NaN, ABC1, PadABC1, abc1}, {NaN, Small}),
                MainRows, Products)

Run ==
    \/ check_product_exists
    \/ productCreate
    \/ productOptionsCreate
    \/ getProductVariants
    \/ productVariantsBulkUpdate
    \/ update_variant_sku
    \/ update_variant_sku_individual
    \/ upload_image_to_shopify
    \/ add_images_to_product
    \/ create_metafield
    \/ publish_product_to_sales_channel
    \/ publishablePublish
    \/ update_product
    \/ ensure_product_options_exist
    \/ ensure_productOptionsCreate
    \/ update_variant
    \/ create_variant
    \/ Provision

\* one run of main over one group
Spec == Init /\ [][Run]_vars

\* main runs on: every request it issues is answered or fails, and main takes its next step
SpecTerminates == Init /\ [][Run]_vars /\ WF_vars(Run)

\* main run and run again over the same rows, for a new handle
InitRerun ==
    InitWith(GroupsUpTo(MaxRows, {NaN, ABC1}, {NaN, Small, Large}), MainRows, {NoProduct})

Next == Run \/ NextRun

SpecRerun == InitRerun /\ [][Next]_vars

\* a run over several groups: a new handle with an option, a product that gets an option,
\* an image and a metafield, and a product with one row for its variant and one row more
HandleGroups ==
    {[group_df |-> <<Row(ABC1, 11, Small)>>,
      main_row |-> [variant_option1_name |-> Size, images |-> <<>>, metafields |-> 0],
      remote |-> NoProduct],
     [group_df |-> <<Row(ABC1, 11, Small)>>,
      main_row |-> [variant_option1_name |-> Size, images |-> <<FileEntry>>, metafields |-> 1],
      remote |-> Product(<<>>, <<Variant(0, ABC1, 9, DefaultTitle, <<>>, TRUE)>>)],
     [group_df |-> <<Row(ABC1, 11, NaN), Row(abc1, 12, NaN)>>,
      main_row |-> [variant_option1_name |-> NaN, images |-> <<>>, metafields |-> 0],
      remote |-> Product(<<Size>>, <<Variant(0, ABC1, 9, Small, <<Small>>, TRUE)>>)]}

RECURSIVE HandleGroupLists(_)
HandleGroupLists(n) ==
    IF n = 0 THEN {<<>>}
    ELSE {Append(gs, g) : gs \in HandleGroupLists(n - 1), g \in HandleGroups}

InitGrouped ==
    \E gs \in UNION {HandleGroupLists(n) : n \in 1..MaxGroups} :
        /\ group_df = gs[1].group_df
        /\ main_row = gs[1].main_row
        /\ remote = gs[1].remote
        /\ remote0 = gs[1].remote
        /\ pc = "check_product_exists"
        /\ loc = InitLoc
        /\ log = <<>>
        /\ run = 1
        /\ faults = 0
        /\ prev = [loc |-> InitLoc, log |-> <<>>]
        /\ grouped = [OneGroup EXCEPT !.rest = Tail(gs)]

NextGrouped == Run \/ NextGroup

\* one run of main over its groups.  main is sequential and every request returns, so a
\* step of main (each one changes log) that stays possible is taken; the platform's
\* provisioning, which leaves log alone, is under no such obligation
SpecGrouped == InitGrouped /\ [][NextGrouped]_vars /\ WF_log(NextGrouped)

\* check_product_exists alone, over the products a handle may resolve to
MaxVariants == 2

RECURSIVE VariantLists(_)
VariantLists(n) ==
    IF n = 0 THEN {<<>>}
    ELSE {Append(vs, Variant(0, sku, 9, title, <<>>, TRUE)) :
             vs \in VariantLists(n - 1),
             sku \in {None, Empty, ABC1, PadABC1, abc1}, title \in {DefaultTitle, Small}}

LookupProducts ==
    {Product(options, variants) :
        options \in {<<>>, <<Size>>},
        variants \in UNION {VariantLists(n) : n \in 0..MaxVariants}}

InitLookup ==
    InitWith({<<Row(ABC1, 11, NaN)>>},
             {[variant_option1_name |-> NaN, images |-> <<>>, metafields |-> 0]},
             {NoProduct} \cup LookupProducts)

SpecLookup == InitLookup /\ [][check_product_exists]_vars

(***************************************************************************)
(* run_graphql_query alone, lines 25-53, over the responses a post may     *)
(* get.  log holds one entry per call: the response, what the call did in  *)
(* order (the post, a sleep) and what it returned.                         *)
(***************************************************************************)
MaxSends == 2     \* calls of run_graphql_query

\* line 42
ThrottleFloor == 200

\* line 44
ThrottleSleep == 5

\* what 'extensions' of a parsed body carries: nothing, no 'cost', a cost without
\* 'throttleStatus', a throttleStatus without 'currentlyAvailable', or the available budget
Telemetry ==
    {[has |-> has, available |-> 0] :
        has \in {"no extensions", "no cost", "no throttleStatus", "no currentlyAvailable"}}
        \cup {[has |-> "currentlyAvailable", available |-> available] :
                 available \in {0, 150, 199, 200, 201, 1000}}

NoTelemetry == [has |-> "no extensions", available |-> 0]

\* a response: the post raises, or it returns a status and a body; a body that parses has
\* or has not 'errors' and 'data'
Responses ==
    {[raises |-> TRUE, status |-> 0, parses |-> FALSE, errors |-> FALSE,
      extensions |-> NoTelemetry, data |-> FALSE]}
        \cup {[raises |-> FALSE, status |-> status, parses |-> FALSE, errors |-> FALSE,
               extensions |-> NoTelemetry, data |-> FALSE] : status \in {200, 404, 500}}
        \cup {[raises |-> FALSE, status |-> 200, parses |-> TRUE, errors |-> errors,
               extensions |-> extensions, data |-> data] :
                 errors \in BOOLEAN, extensions \in Telemetry, data \in BOOLEAN}

\* line 41: cost.get('throttleStatus', {}).get('currentlyAvailable', 1000)
currentlyAvailable(extensions) ==
    IF extensions.has = "currentlyAvailable" THEN extensions.available ELSE 1000

\* a call that posts once more when the post raised
run_graphql_query_retrying(response) ==
    [response |-> response,
     did |-> IF response.raises THEN <<[event |-> "post", secs |-> 0],
                                       [event |-> "post", secs |-> 0]>>
             ELSE <<[event |-> "post", secs |-> 0]>>,
     returned |-> IF ~response.raises /\ response.status < 400 /\ response.parses
                     /\ ~response.errors /\ response.data
                  THEN "data" ELSE "None"]

\* a call that sleeps whenever the response carries a cost
run_graphql_query_sleep_on_cost(response) ==
    [response |-> response,
     did |-> IF ~response.raises /\ response.status < 400 /\ response.parses
                /\ ~response.errors /\ response.extensions.has \notin {"no extensions", "no cost"}
             THEN <<[event |-> "post", secs |-> 0], [event |-> "sleep", secs |-> ThrottleSleep]>>
             ELSE <<[event |-> "post", secs |-> 0]>>,
     returned |-> IF ~response.raises /\ response.status < 400 /\ response.parses
                     /\ ~response.errors /\ response.data
                  THEN "data" ELSE "None"]

\* lines 29-53: one call, on the response its post gets
run_graphql_query_once(response) ==
    LET post == [event |-> "post", secs |-> 0]
        None_ == [response |-> response, did |-> <<post>>, returned |-> "None"]
    IN IF response.raises THEN None_                    \* RequestException
       ELSE IF response.status >= 400 THEN None_        \* raise_for_status
       ELSE IF ~response.parses THEN None_              \* JSONDecodeError
       ELSE IF response.errors THEN None_               \* 'errors' in response_data
       ELSE [response |-> response,
             did |-> IF response.extensions.has \notin {"no extensions", "no cost"}
                        /\ currentlyAvailable(response.extensions) < ThrottleFloor
                     THEN <<post, [event |-> "sleep", secs |-> ThrottleSleep]>>
                     ELSE <<post>>,
             returned |-> IF response.data THEN "data" ELSE "None"]

run_graphql_query_call ==
    /\ pc = "run_graphql_query"
    /\ Len(log) < MaxSends
    /\ \E response \in Responses : log' = Append(log, run_graphql_query_once(response))
    /\ UNCHANGED <<group_df, main_row, remote, pc, loc, run, faults, remote0, prev, grouped>>

InitDispatcher ==
    /\ group_df = <<>>
    /\ main_row = [variant_option1_name |-> NaN, images |-> <<>>, metafields |-> 0]
    /\ remote = NoProduct
    /\ remote0 = NoProduct
    /\ pc = "run_graphql_query"
    /\ loc = InitLoc
    /\ log = <<>>
    /\ run = 1
    /\ faults = 0
    /\ prev = [loc |-> InitLoc, log |-> <<>>]
    /\ grouped = OneGroup

SpecDispatcher == InitDispatcher /\ [][run_graphql_query_call]_vars

(***************************************************************************)
(* add_images_to_product alone, lines 128-185, called for a product that   *)
(* exists, over the entries an images cell may hold.                       *)
(***************************************************************************)
MaxImages == 3    \* entries of the images cell

\* an https and a padded http URL, a scheme in capitals, a file that exists, a path
\* without a file, and blanks between two commas
ImageEntries ==
    {UrlEntry,
     Entry(<<" ">> \o Http \o <<"b">>, FALSE),
     Entry(<<"H", "t", "t", "p", ":", "/", "/", "c">>, FALSE),
     FileEntry,
     Entry(<<"b", ".", "p", "n", "g">>, FALSE),
     Entry(<<" ", " ">>, FALSE)}

RECURSIVE ImageLists(_)
ImageLists(n) ==
    IF n = 0 THEN {<<>>}
    ELSE {Append(entries, entry) : entries \in ImageLists(n - 1), entry \in ImageEntries}

InitImages ==
    /\ group_df = <<Row(ABC1, 11, NaN)>>
    /\ main_row \in {[variant_option1_name |-> NaN, images |-> images, metafields |-> 0] :
                        images \in UNION {ImageLists(n) : n \in 1..MaxImages}}
    /\ remote = Product(<<>>, <<Variant(0, ABC1, 11, DefaultTitle, <<>>, TRUE)>>)
    /\ remote0 = remote
    /\ \E at \in {assets([InitLoc EXCEPT !.path = "create", !.product_id = 1])} :
           pc = at.pc /\ loc = at.loc
    /\ log = <<>>
    /\ run = 1
    /\ faults = 0
    /\ prev = [loc |-> InitLoc, log |-> <<>>]
    /\ grouped = OneGroup

NextImages == upload_image_to_shopify \/ add_images_to_product

SpecImages == InitImages /\ [][NextImages]_vars

(***************************************************************************)
(* Vocabulary of the properties.                                           *)
(***************************************************************************)
SkuRows == {n \in 1..Len(group_df) : ~blank(group_df[n].variant_sku)}
BlankRows == {n \in 1..Len(group_df) : blank(group_df[n].variant_sku)}

Issued(ops) == {n \in 1..Len(log) : log[n].op \in ops}

\* the group declares an option: the first row names it and some row has a value
DeclaresOption == truthy(option_name_of(main_row)) /\ option_values_of(group_df) # <<>>

\* the declared option exists and every SKU row's variant exists with that SKU
FullySynchronized(r) ==
    /\ r.exists
    /\ DeclaresOption => option_name_of(main_row) \in Range(r.options)
    /\ \A n \in SkuRows : \E v \in Range(r.variants) : v.sku = group_df[n].variant_sku

\* main's decision for row n, "none" if it has taken none
RouteOf(n) ==
    IF \E k \in 1..Len(loc.routes) : loc.routes[k].row = n
    THEN loc.routes[CHOOSE k \in 1..Len(loc.routes) : loc.routes[k].row = n].call
    ELSE "none"

(***************************************************************************)
(* C1.  Idempotence: a second run over the unchanged group, against the    *)
(* product the first run created and fully synchronized, issues no         *)
(* product-create, option-create or variant-create mutation, and routes    *)
(* every SKU row to an update of its existing variant.                     *)
(***************************************************************************)
C1_SecondRunCreatesNothing ==
    (run = 2 /\ prev.loc.returned = "product_id" /\ FullySynchronized(remote0)) =>
        /\ Issued({"productCreate", "productOptionsCreate", "productVariantsBulkCreate"}) = {}
        /\ pc = "finished" => \A n \in SkuRows : RouteOf(n) = "update_variant"

\* the same, for second runs in which every request is answered with data
C1_SecondRunCreatesNothing_NoFault ==
    faults = 0 => C1_SecondRunCreatesNothing

(***************************************************************************)
(* C2.  A row whose SKU is blank triggers no mutation: no mutation of the  *)
(* run carries its SKU or price, and none carries an option value that     *)
(* only blank-SKU rows have.                                               *)
(***************************************************************************)
C2_BlankRowInNoMutation ==
    \A n \in Issued(Mutations) :
        /\ log[n].src \cap BlankRows = {}
        /\ \A value \in Range(log[n].vals) :
               \E q \in SkuRows : group_df[q].variant_option1_value = value

(***************************************************************************)
(* C3.  On the update path, when the core-field update fails, nothing more *)
(* is requested for the group: the productUpdate request is the last one.  *)
(***************************************************************************)
CoreUpdateFailed == loc.path = "update" /\ pc # "update_product" /\ ~loc.core_updated

C3_NothingAfterFailedCoreUpdate ==
    CoreUpdateFailed => log[Len(log)].op = "productUpdate"

\* C3 as amended: after a failed core-field update no image and no metafield request is
\* issued for the group, while the option and the rows are still processed.
C3_NoAssetsAfterFailedCoreUpdate ==
    CoreUpdateFailed => Issued({"fileCreate", "productUpdateImages", "metafieldsSet"}) = {}

\* a failed core update of a group with a metafield, followed by a variant request
C3_Witness ==
    /\ CoreUpdateFailed
    /\ pc = "finished"
    /\ main_row.metafields > 0
    /\ Issued({"productVariantsBulkUpdate", "productVariantsBulkCreate"}) # {}

(***************************************************************************)
(* C4.  SKU matching on the update path is exact after trimming only: a    *)
(* row is routed to update_variant exactly when some stored SKU equals     *)
(* its SKU once both are trimmed, letter case kept, and then to a variant  *)
(* with such a SKU; a variant without a SKU is never matched.              *)
(***************************************************************************)
\* trimming, on the SKUs of the model
TrimmedSku(sku) == IF sku = PadABC1 THEN ABC1 ELSE sku

SkuMatches(n) ==
    {v \in Range(remote0.variants) :
        v.sku # None /\ TrimmedSku(v.sku) = TrimmedSku(group_df[n].variant_sku)}

C4_SkuMatchExactAfterTrim ==
    loc.path = "update" =>
        \A k \in 1..Len(loc.routes) :
            LET route == loc.routes[k]
            IN /\ route.row \in SkuRows
               /\ route.call = "update_variant" <=> SkuMatches(route.row) # {}
               /\ route.call = "update_variant" =>
                      route.variant_id \in {v.id : v \in SkuMatches(route.row)}

\* stored "ABC-1": the row "  ABC-1  " is routed to its update, the row "abc-1" is not
C4_Witness ==
    /\ pc = "finished"
    /\ {v.sku : v \in Range(remote0.variants)} = {ABC1}
    /\ Len(group_df) = 2
    /\ group_df[1].variant_sku = PadABC1 /\ RouteOf(1) = "update_variant"
    /\ group_df[2].variant_sku = abc1 /\ RouteOf(2) = "create_variant"

(***************************************************************************)
(* C5.  Option-value matching on the create path ignores letter case: a    *)
(* SKU row whose option value equals, up to letter case, the value of a    *)
(* variant of the created product resolves to such a variant, and to one   *)
(* with exactly its value when there is one (the exact key is tried        *)
(* first; only an all-lower-case value can have its exact key taken over   *)
(* by the folded key of another variant).                                  *)
(***************************************************************************)
AfterPoll ==
    /\ loc.path = "create"
    /\ loc.product_id # 0
    /\ pc \notin {"productOptionsCreate", "getProductVariants"}

\* equality up to letter case, on the option values of the model
SameLabel(a, b) == a = b \/ {a, b} = {Small, small}

BatchFor(n) == {e \in Range(loc.variants_to_update) : e.row = n}

Found == loc.path = "update"

DefaultTitled == {k \in 1..Len(remote.variants) : remote.variants[k].title = DefaultTitle}

C6_DefaultOnlyWhenExactlyOne ==
    Found =>
        (loc.default_variant_id # 0 <=>
            /\ remote.options = <<>>
            /\ Len(remote.variants) = 1 \/ Cardinality(DefaultTitled) = 1)

\* C6 as amended: a default variant id is returned exactly when the product has no declared
\* options and either exactly one variant exists (its id) or at least one variant is titled
\* 'Default Title' (the id of the last of them).
C6_DefaultWhenAnyTitled ==
    Found =>
        loc.default_variant_id =
            IF remote.options # <<>> THEN 0
            ELSE IF Len(remote.variants) = 1 THEN remote.variants[1].id
            ELSE IF DefaultTitled = {} THEN 0
            ELSE remote.variants[CHOOSE k \in DefaultTitled : \A q \in DefaultTitled : q <= k].id

\* two variants both titled 'Default Title' and no option: the last one is the default
C6_Witness ==
    /\ Found
    /\ remote.options = <<>>
    /\ Len(remote.variants) = 2
    /\ DefaultTitled = {1, 2}
    /\ loc.default_variant_id = remote.variants[2].id

(***************************************************************************)
(* C7.  For an existing product and a group of one row whose SKU is not in *)
(* the fetched variant map, the run issues exactly one variant-create      *)
(* mutation, scoped to the row's option value, and no mutation that        *)
(* targets a pre-existing variant.                                         *)
(***************************************************************************)
OneUnmatchedRow ==
    /\ loc.path = "update"
    /\ pc = "finished"
    /\ Len(group_df) = 1
    /\ RouteOf(1) = "create_variant"

TargetsExisting ==
    {n \in Issued({"productVariantsBulkUpdate", "inventoryItemUpdate"}) :
        log[n].vid \in VariantIds(remote0)}

ValueCell(n) ==
    IF group_df[n].variant_option1_value = NaN THEN <<>>
    ELSE <<group_df[n].variant_option1_value>>

C7_OneCreateNoExistingTouched ==
    OneUnmatchedRow =>
        /\ Cardinality(Issued({"productVariantsBulkCreate"})) = 1
        /\ \A n \in Issued({"productVariantsBulkCreate"}) : log[n].vals = ValueCell(1)
        /\ TargetsExisting = {}

\* C7 as amended: when the group declares an option, or the lookup returned no default
\* variant, the run issues exactly one variant-create mutation (scoped to the row's option
\* value when an option is declared) and no mutation that targets a pre-existing variant;
\* when the group declares no option and the lookup returned a default variant, it issues
\* no variant-create mutation and the only variant it targets is that default variant.
C7_OneCreateUnlessDefault ==
    OneUnmatchedRow =>
        IF main_row.variant_option1_name = NaN /\ loc.default_variant_id # 0
        THEN /\ Issued({"productVariantsBulkCreate"}) = {}
             /\ \E n \in Issued({"productVariantsBulkUpdate"}) : TRUE
             /\ \A n \in Issued({"productVariantsBulkUpdate", "inventoryItemUpdate"}) :
                    log[n].vid = loc.default_variant_id
        ELSE /\ Cardinality(Issued({"productVariantsBulkCreate"})) = 1
             /\ \A n \in Issued({"productVariantsBulkCreate"}) :
                    log[n].vals = IF main_row.variant_option1_name = NaN THEN <<>>
                                  ELSE ValueCell(1)
             /\ TargetsExisting = {}

\* one variant created under "Small" beside the stored ones, which keep price and SKU
C7_Witness ==
    /\ OneUnmatchedRow
    /\ \E n \in Issued({"productVariantsBulkCreate"}) : log[n].vals = <<Small>>
    /\ Len(remote.variants) = Len(remote0.variants) + 1
    /\ \A k \in 1..Len(remote0.variants) :
         /\ remote.variants[k].sku = remote0.variants[k].sku
         /\ remote.variants[k].price = remote0.variants[k].price

(***************************************************************************)
(* C8.  On the update path a SKU row with no SKU match creates a new       *)
(* variant scoped to the row's option value when the group declares an     *)
(* option; when the group declares no option it updates the implicit       *)
(* default variant instead and issues no variant-create mutation.          *)
(***************************************************************************)
Processed(n) == RouteOf(n) # "none" /\ (pc = "finished" \/ loc.i > n)

CreatesFor(n) == {k \in Issued({"productVariantsBulkCreate"}) : log[k].src = {n}}
UpdatesFor(n) == {k \in Issued({"productVariantsBulkUpdate"}) : log[k].src = {n}}

C8_CreateOrDefault ==
    loc.path = "update" =>
        \A n \in SkuRows :
            (RouteOf(n) = "create_variant" /\ Processed(n)) =>
                IF main_row.variant_option1_name # NaN
                THEN /\ Cardinality(CreatesFor(n)) = 1
                     /\ \A k \in CreatesFor(n) : log[k].vals = ValueCell(n)
                ELSE /\ CreatesFor(n) = {}
                     /\ UpdatesFor(n) # {}

\* C8 as amended: with an option declared the row issues one variant-create mutation scoped
\* to its option value (when it has one); with no option declared it updates the default
\* variant and issues no variant-create mutation when the lookup returned a default variant
\* id, and issues one variant-create mutation without option value when it returned none.
C8_CreateOrDefaultIfAny ==
    loc.path = "update" =>
        \A n \in SkuRows :
            (RouteOf(n) = "create_variant" /\ Processed(n)) =>
                IF main_row.variant_option1_name # NaN
                THEN /\ Cardinality(CreatesFor(n)) = 1
                     /\ \A k \in CreatesFor(n) : log[k].vals = ValueCell(n)
                     /\ UpdatesFor(n) = {}
                ELSE IF loc.default_variant_id # 0
                THEN /\ CreatesFor(n) = {}
                     /\ Cardinality(UpdatesFor(n)) = 1
                     /\ \A k \in UpdatesFor(n) : log[k].vid = loc.default_variant_id
                ELSE /\ Cardinality(CreatesFor(n)) = 1
                     /\ \A k \in CreatesFor(n) : log[k].vals = <<>>
                     /\ UpdatesFor(n) = {}

\* no option declared: an unmatched row has updated the default variant, and its SKU
C8_Witness ==
    /\ loc.path = "update"
    /\ pc = "finished"
    /\ main_row.variant_option1_name = NaN
    /\ \E n \in SkuRows :
         /\ RouteOf(n) = "create_variant"
         /\ CreatesFor(n) = {}
         /\ \E k \in UpdatesFor(n) : log[k].vid = loc.default_variant_id
         /\ \E v \in Range(remote.variants) :
              v.id = loc.default_variant_id /\ v.sku = group_df[n].variant_sku

(***************************************************************************)
(* C9.  When the inventory-readiness poll is exhausted and a newly created *)
(* variant is left without a SKU, the run does not abort, and a later run  *)
(* over the same rows repairs it: after that later run, in which every     *)
(* request is answered and every inventory record is visible, the variant  *)
(* carries its row's SKU.                                                  *)
(***************************************************************************)
\* the first run created the product, and its poll never saw an inventory record
PollExhausted ==
    /\ prev.loc.path = "create"
    /\ prev.loc.returned = "product_id"
    /\ prev.loc.attempt = PollAttempts - 1
    /\ \A v \in Range(prev.loc.existing_variants_data) : ~v.inv

\* the variants the first run resolved a row to and left without a SKU
LeftWithoutSku ==
    {e \in Range(prev.loc.variants_to_update) :
        \E v \in Range(remote0.variants) : v.id = e.id /\ v.sku = None}

LaterRunDone ==
    /\ run = 2
    /\ pc = "finished"
    /\ faults = 0
    /\ \A v \in Range(remote0.variants) : v.inv
    /\ \A v \in Range(remote.variants) : v.inv

C9_LaterRunRepairs ==
    (LaterRunDone /\ PollExhausted) =>
        \A e \in LeftWithoutSku :
            \E v \in Range(remote.variants) :
                /\ v.id = e.id
                /\ v.sku \in {group_df[f.row].variant_sku :
                                 f \in {g \in Range(prev.loc.variants_to_update) : g.id = e.id}}

\* the same for the groups that declare no option, whose one variant is the default one
C9_LaterRunRepairs_NoOption ==
    main_row.variant_option1_name = NaN => C9_LaterRunRepairs

(***************************************************************************)
(* C10.  For a handle with no remote product and a group of two rows with  *)
(* option "Size", values "Small" and "Large", distinct SKUs and distinct   *)
(* prices, when every request succeeds and the poll sees the inventory     *)
(* records, the run leaves one product with the option and two variants,   *)
(* each carrying the price and the SKU of its own row.                     *)
(***************************************************************************)
TwoSizes ==
    /\ remote0 = NoProduct
    /\ main_row.variant_option1_name = Size
    /\ Len(group_df) = 2
    /\ group_df[1].variant_option1_value = Small
    /\ group_df[2].variant_option1_value = Large
    /\ SkuRows = {1, 2}
    /\ group_df[1].variant_sku # group_df[2].variant_sku
    /\ group_df[1].variant_price # group_df[2].variant_price

AllSucceeded ==
    /\ pc = "finished"
    /\ faults = 0
    /\ loc.have_data
    /\ \A v \in Range(loc.existing_variants_data) : v.inv

C10_TwoVariantsEachItsRow ==
    (TwoSizes /\ AllSucceeded) =>
        /\ remote.exists
        /\ remote.options = <<Size>>
        /\ Len(remote.variants) = 2
        /\ \A n \in {1, 2} :
             \E k \in {1, 2} :
                /\ remote.variants[k].selectedOptions = <<group_df[n].variant_option1_value>>
                /\ remote.variants[k].price = group_df[n].variant_price
                /\ remote.variants[k].sku = group_df[n].variant_sku
        /\ Cardinality(Issued({"productCreate"})) = 1
        /\ \A n \in Issued({"productOptionsCreate"}) : log[n].vals = <<Small, Large>>

\* such a run, finished, with "Small" and "Large" priced 11 and 12
C10_Witness ==
    /\ TwoSizes
    /\ AllSucceeded
    /\ \E v \in Range(remote.variants) :
         v.selectedOptions = <<Small>> /\ v.price = 11 /\ v.sku = group_df[1].variant_sku
    /\ \E v \in Range(remote.variants) :
         v.selectedOptions = <<Large>> /\ v.price = 12 /\ v.sku = group_df[2].variant_sku

(***************************************************************************)
(* C11.  When the creation of the product shell fails (no result, or no    *)
(* product in the response), create_product_with_variants returns None and *)
(* the group is aborted: the productCreate request is the last request of  *)
(* the group, so no option, variant, inventory, image, metafield or        *)
(* publish request is issued for it.                                       *)
(***************************************************************************)
ShellFailed == loc.path = "create" /\ loc.returned = "None"

C11_ShellFailureAbortsGroup ==
    ShellFailed =>
        /\ pc = "finished"
        /\ log[Len(log)].op = "productCreate"
        /\ Cardinality(Issued({"productCreate"})) = 1
        /\ Issued((Mutations \cup Queries) \ {"productByHandle", "productCreate"}) = {}

\* the shell of a group with an option, a SKU row, images and a metafield was refused
C11_Witness ==
    /\ ShellFailed
    /\ ~remote.exists
    /\ DeclaresOption
    /\ SkuRows # {}
    /\ main_row.images # <<>>
    /\ main_row.metafields > 0

(***************************************************************************)
(* C12.  The run attempts every row group: the lookup of every group is    *)
(* eventually issued, in particular that of each group after one whose     *)
(* creation failed, and the groups are processed one at a time: no request *)
(* for a later group precedes a request of an earlier one.                 *)
(***************************************************************************)
\* every request of the run so far, with the group it was issued for
AllIssued == grouped.issued \o IssuedFor(grouped.handle, log)

NGroups == grouped.handle + Len(grouped.rest)

LookedUp(handle) ==
    \E n \in 1..Len(AllIssued) :
        AllIssued[n].handle = handle /\ AllIssued[n].lookup

CreationFailed(handle) == grouped.handle = handle /\ ShellFailed

OneAtATime ==
    \A a, b \in 1..Len(AllIssued) : a < b => AllIssued[a].handle <= AllIssued[b].handle

C12_EveryGroupAttempted ==
    /\ []OneAtATime
    /\ <>(\A g \in 1..NGroups : LookedUp(g))
    /\ \A h \in 1..MaxGroups :
          CreationFailed(h) ~> (\A g \in (h + 1)..NGroups : LookedUp(g))

\* the creation of the first of three groups failed, and the third has been looked up
C12_Witness ==
    /\ 1 \in grouped.skipped
    /\ NGroups = 3
    /\ LookedUp(2)
    /\ LookedUp(3)

(***************************************************************************)
(* C13: a call of run_graphql_query posts exactly once, whatever the       *)
(* response, and a post that raises, a status of 400 or more, a body that  *)
(* does not parse and a body with 'errors' all make it return None.        *)
(***************************************************************************)
Posts(call) == {n \in 1..Len(call.did) : call.did[n].event = "post"}

Failed(response) ==
    \/ response.raises
    \/ response.status >= 400
    \/ ~response.parses
    \/ response.errors

C13_OnePostFailuresAllNone ==
    \A n \in 1..Len(log) :
        /\ Cardinality(Posts(log[n])) = 1
        /\ log[n].did[1].event = "post"
        /\ Failed(log[n].response) => log[n].returned = "None"

\* two calls, every kind of failure among them answered None
C13_Witness ==
    /\ Len(log) = 2
    /\ log[1].response.raises /\ log[1].returned = "None"
    /\ log[2].response.errors /\ log[2].response.data /\ log[2].returned = "None"

(***************************************************************************)
(* C14: on a response that is no failure, run_graphql_query sleeps 5       *)
(* seconds, once and after its one post, exactly when the response         *)
(* carries a cost whose currentlyAvailable is below 200, and returns the   *)
(* data of that response either way.                                       *)
(***************************************************************************)
Reported(response) == response.extensions.has = "currentlyAvailable"

C14_SleepOnceBelowFloor ==
    \A n \in 1..Len(log) :
        ~Failed(log[n].response) =>
            /\ log[n].returned = (IF log[n].response.data THEN "data" ELSE "None")
            /\ log[n].did =
                   IF Reported(log[n].response) /\ log[n].response.extensions.available < 200
                   THEN <<[event |-> "post", secs |-> 0], [event |-> "sleep", secs |-> 5]>>
                   ELSE <<[event |-> "post", secs |-> 0]>>

\* a budget of 150 slept on, then one of 200 and one without telemetry not slept on
C14_Witness ==
    /\ Len(log) = 2
    /\ ~Failed(log[1].response)
    /\ log[1].response.extensions = [has |-> "currentlyAvailable", available |-> 150]
    /\ Len(log[1].did) = 2 /\ log[1].returned = "data"
    /\ ~Failed(log[2].response)
    /\ log[2].response.extensions
           \in {[has |-> "currentlyAvailable", available |-> 200], NoTelemetry}
    /\ Len(log[2].did) = 1 /\ log[2].returned = "data"

(***************************************************************************)
(* C15: the publish mutation is issued exactly when the channel listing,   *)
(* of at most ten channels, was answered with a channel named 'Online      *)
(* Store', and right after it; a listing that failed or names no such      *)
(* channel ends the group's requests; whatever the publish mutation is     *)
(* answered, create_product_with_variants returns the product id.          *)
(***************************************************************************)
OnlineStoreListed(n) == \E k \in 1..Len(log[n].vals) : log[n].vals[k] = "Online Store"

C15_PublishOnlyOnlineStore ==
    /\ \A n \in Issued({"publishablePublish"}) :
           n > 1 /\ log[n - 1].op = "getPublications" /\ OnlineStoreListed(n - 1)
    /\ \A n \in Issued({"getPublications"}) :
           /\ Len(log[n].vals) <= 10
           /\ IF OnlineStoreListed(n)
              THEN IF n = Len(log) THEN pc = "publishablePublish"
                   ELSE log[n + 1].op = "publishablePublish"
              ELSE n = Len(log) /\ pc = "finished"
    /\ (pc = "finished" /\ Issued({"publishablePublish"}) # {}) =>
           loc.returned = "product_id"

\* published to 'Online Store', listed second, and the publish mutation not answered
C15_Witness ==
    /\ pc = "finished"
    /\ Len(log) > 1
    /\ log[Len(log)].op = "publishablePublish"
    /\ log[Len(log) - 1].vals = <<"Point of Sale", "Online Store">>
    /\ ~loc.published
    /\ loc.returned = "product_id"

(***************************************************************************)
(* C16: a call of add_images_to_product issues the attach mutation at most *)
(* once: never when no entry gave a reference, otherwise once, after the   *)
(* last upload, with every reference in entry order.  An entry that is a   *)
(* URL takes no upload; as first stated, every other entry takes one       *)
(* upload and is dropped when the upload is answered with user errors or   *)
(* not at all.                                                             *)
(***************************************************************************)
IsUrl(j) ==
    \/ startswith(strip(main_row.images[j].path), Http)
    \/ startswith(strip(main_row.images[j].path), Https)

IsBlank(j) == strip(main_row.images[j].path) = Empty

\* the entries add_images_to_product is through with
EntriesDone ==
    {j \in 1..Len(main_row.images) :
        pc \notin {"upload_image_to_shopify"} \/ j < loc.j}

UploadsOf(j) == {n \in Issued({"fileCreate"}) : log[n].images = <<j>>}

\* the entries that gave a reference, in entry order
Resolved ==
    SeqFilter([j \in 1..Len(main_row.images) |-> j],
              {j \in EntriesDone :
                  \/ IsUrl(j)
                  \/ \E n \in UploadsOf(j) : log[n].answer = "image"})

ImagesDone == pc \notin {"upload_image_to_shopify", "add_images_to_product"}

AttachOnceInOrder ==
    /\ Cardinality(Issued({"productUpdateImages"})) <= 1
    /\ ImagesDone =>
           IF Resolved = <<>> THEN Issued({"productUpdateImages"}) = {}
           ELSE /\ log[Len(log)].op = "productUpdateImages"
                /\ log[Len(log)].images = Resolved
    /\ \A j \in EntriesDone : IsUrl(j) => UploadsOf(j) = {}

C16_AttachOnceEveryOtherUploaded ==
    /\ AttachOnceInOrder
    /\ \A j \in EntriesDone :
           ~IsUrl(j) /\ ~IsBlank(j) => Cardinality(UploadsOf(j)) = 1

C16_AttachOnceFilesUploaded ==
    /\ AttachOnceInOrder
    /\ \A j \in EntriesDone :
           ~IsUrl(j) =>
               Cardinality(UploadsOf(j)) =
                   (IF ~IsBlank(j) /\ main_row.images[j].exists THEN 1 ELSE 0)

\* a path without a file, a file uploaded and a URL: the attach carries the last two
C16_Witness ==
    /\ ImagesDone
    /\ Len(main_row.images) = 3
    /\ ~IsUrl(1) /\ ~IsBlank(1) /\ ~main_row.images[1].exists
    /\ main_row.images[2] = FileEntry
    /\ IsUrl(3)
    /\ log[Len(log)].op = "productUpdateImages"
    /\ log[Len(log)].images = <<2, 3>>

(***************************************************************************)
(* C17: the poll of create_product_with_variants is at most 3 consecutive  *)
(* getProductVariants queries; main sleeps 2 seconds after an attempt      *)
(* exactly when another attempt follows, so at most twice and never after  *)
(* the third; an attempt that sees an inventory record is the last; after  *)
(* the last attempt, with or without a record, the function goes on, from  *)
(* the last answer, to the price update, the SKUs, the assets and the      *)
(* channel listing.                                                        *)
(***************************************************************************)
Polls == Issued({"getProductVariants"})

PollOver == Polls # {} /\ pc # "getProductVariants"

\* three attempts and no inventory record in the last answer
Exhausted ==
    /\ Cardinality(Polls) = 3
    /\ \A n \in Polls : log[n].answer # "inventory"

C17_PollThreeAttemptsTwoDelays ==
    /\ Cardinality(Polls) <= 3
    /\ Cardinality({n \in Polls : log[n].sleep # 0}) <= 2
    /\ \A n \in Polls :
           /\ log[n].sleep \in {0, 2}
           /\ (n + 1 \in Polls \/ (n = Len(log) /\ pc = "getProductVariants"))
                  <=> log[n].sleep = 2
           /\ log[n].answer = "inventory" => log[n].sleep = 0
           /\ (log[n].answer # "inventory" /\ log[n].sleep = 0) =>
                  Cardinality({k \in Polls : k <= n}) = 3
           /\ \A k \in Polls : k < n => \A q \in k..n : q \in Polls
    /\ PollOver =>
           /\ loc.returned # "None"
           /\ loc.have_data <=> log[CHOOSE n \in Polls : n + 1 \notin Polls].answer # "None"
           /\ ~loc.have_data => Issued({"productVariantsBulkUpdate"}) = {}
           /\ pc = "finished" =>
                  /\ Issued({"getPublications"}) # {}
                  /\ loc.returned = "product_id"

\* three attempts without an inventory record, then the price update, a SKU written after
\* a re-query, an image, a metafield and the channel listing
C17_Witness ==
    /\ Exhausted
    /\ pc = "finished"
    /\ Cardinality({n \in Polls : log[n].sleep = 2}) = 2
    /\ Issued({"productVariantsBulkUpdate"}) # {}
    /\ Issued({"getVariant"}) # {}
    /\ Issued({"fileCreate"}) # {}
    /\ Issued({"metafieldsSet"}) # {}
    /\ Issued({"getPublications"}) # {}

(***************************************************************************)
(* C18: after a productCreate that gave a product, the requests of         *)
(* create_product_with_variants come in this order: those on options,      *)
(* variants and inventory records, then the uploads and the attach of the  *)
(* images, then the metafields, then the channel listing and the publish   *)
(* mutation.  Whatever was answered on the way, the function ends with one *)
(* upload per file, one attach, one metafieldsSet per metafield column and *)
(* one channel listing, returns the product id, and no request of it is    *)
(* other than these.                                                       *)
(***************************************************************************)
Stage(op) ==
    CASE op = "productByHandle" -> 0
      [] op = "productCreate" -> 1
      [] op \in {"productOptionsCreate", "getProductVariants", "productVariantsBulkUpdate",
                 "getVariant", "inventoryItemUpdate"} -> 2
      [] op \in {"fileCreate", "productUpdateImages"} -> 3
      [] op = "metafieldsSet" -> 4
      [] op \in {"getPublications", "publishablePublish"} -> 5
      [] OTHER -> 6

ShellCreated == loc.path = "create" /\ pc # "productCreate" /\ loc.returned # "None"

C18_AssetsThenPublishAfterVariants ==
    ShellCreated =>
        /\ \A n \in 1..Len(log) : Stage(log[n].op) < 6
        /\ \A a, b \in 1..Len(log) : a < b => Stage(log[a].op) <= Stage(log[b].op)
        /\ pc = "finished" =>
               /\ loc.returned = "product_id"
               /\ \A j \in 1..Len(main_row.images) :
                      Cardinality(UploadsOf(j)) = (IF IsUrl(j) THEN 0 ELSE 1)
               /\ main_row.images # <<>> => Cardinality(Issued({"productUpdateImages"})) = 1
               /\ Cardinality(Issued({"metafieldsSet"})) = main_row.metafields
               /\ Cardinality(Issued({"getPublications"})) = 1

\* the price update not answered, and still the upload, the attach, the metafield and the
\* publish mutation
C18_Witness ==
    /\ ShellCreated
    /\ pc = "finished"
    /\ Issued({"productVariantsBulkUpdate"}) # {}
    /\ loc.updated_variants = <<>>
    /\ Issued({"fileCreate"}) # {}
    /\ Issued({"productUpdateImages"}) # {}
    /\ Issued({"metafieldsSet"}) # {}
    /\ log[Len(log)].op = "publishablePublish"

(***************************************************************************)
(* C19: in create_product_with_variants an inventoryItemUpdate is issued   *)
(* only for a variant the productVariantsBulkUpdate answer lists, at most  *)
(* once for each: without a getVariant query for a variant whose inventory *)
(* item id the poll gave, and otherwise right after a getVariant query     *)
(* for that variant that was answered with an inventory item.  After a     *)
(* getVariant query answered otherwise the variant gets no write, and      *)
(* after a price update that is not answered, or with user errors, there   *)
(* is no SKU request at all.                                               *)
(***************************************************************************)
SkuWrites == Issued({"inventoryItemUpdate"})

Requeries == Issued({"getVariant"})

Updated == Range(loc.updated_variants)

KnownInventory(variant_id) == loc.variant_sku_map[variant_id].inventory_item_id # 0

C19_SkuOnlyForUpdatedVariants ==
    loc.path = "create" =>
        /\ \A n \in SkuWrites \cup Requeries :
               /\ log[n].vid \in Updated
               /\ \E k \in Issued({"productVariantsBulkUpdate"}) : k < n
               /\ \A k \in SkuWrites \cup Requeries :
                      (log[k].op = log[n].op /\ log[k].vid = log[n].vid) => k = n
        /\ \A n \in SkuWrites :
               IF KnownInventory(log[n].vid)
               THEN \A k \in Requeries : log[k].vid # log[n].vid
               ELSE /\ log[n - 1].op = "getVariant"
                    /\ log[n - 1].vid = log[n].vid
                    /\ log[n - 1].answer = "inventory"
        /\ \A n \in Requeries :
               /\ ~KnownInventory(log[n].vid)
               /\ log[n].answer # "inventory" =>
                      \A k \in SkuWrites : log[k].vid # log[n].vid
               /\ (log[n].answer = "inventory" /\ n < Len(log)) =>
                      log[n + 1].op = "inventoryItemUpdate" /\ log[n + 1].vid = log[n].vid
        /\ pc = "finished" =>
               \A v \in Updated :
                   \/ \E n \in SkuWrites : log[n].vid = v
                   \/ \E n \in Requeries : log[n].vid = v /\ log[n].answer # "inventory"

\* two variants updated: the SKU of one written at once, that of the other after a query
C19_Witness ==
    /\ loc.path = "create"
    /\ pc = "finished"
    /\ \E a, b \in SkuWrites :
           /\ KnownInventory(log[a].vid)
           /\ ~KnownInventory(log[b].vid)
           /\ log[b - 1].op = "getVariant"

(***************************************************************************)
(* C20: create_product_with_variants issues productVariantsBulkUpdate at   *)
(* most once, and not at all when no SKU row has a target among the        *)
(* variants of the last poll answer.  A row's targets are, with an option  *)
(* declared, the variants whose first option value is the row's value up   *)
(* to letter case and outer blanks, and, with none declared, the first     *)
(* variant without option values.  The batch has one entry for each SKU    *)
(* row that has a target, in row order, with a target's id and the row's   *)
(* price.                                                                  *)
(***************************************************************************)
Targets(n) ==
    LET value == group_df[n].variant_option1_value
        edges == loc.existing_variants_data
        plain == {k \in 1..Len(edges) : edges[k].selectedOptions = <<>>}
    IN IF truthy(option_name_of(main_row))
       THEN IF isna(value) THEN {}
            ELSE {v.id : v \in {w \in Range(edges) :
                                   /\ w.selectedOptions # <<>>
                                   /\ lower(strip(w.selectedOptions[1])) = lower(strip(value))}}
       ELSE {edges[k].id : k \in {q \in plain : \A p \in plain : q <= p}}

ResolvedRows == {n \in SkuRows : Targets(n) # {}}

PriceUpdates == Issued({"productVariantsBulkUpdate"})

C20_OneBatchEntryPerResolvedRow ==
    /\ loc.path = "create" => Cardinality(PriceUpdates) <= 1
    /\ (AfterPoll /\ pc # "productVariantsBulkUpdate") =>
           IF ResolvedRows = {} THEN PriceUpdates = {}
           ELSE /\ Cardinality(PriceUpdates) = 1
                /\ \A k \in PriceUpdates :
                       /\ Len(log[k].batch) = Cardinality(ResolvedRows)
                       /\ \A a, b \in 1..Len(log[k].batch) :
                              a < b => log[k].batch[a].row < log[k].batch[b].row
                       /\ \A n \in ResolvedRows :
                              \E e \in Range(log[k].batch) :
                                  /\ e.row = n
                                  /\ e.id \in Targets(n)
                                  /\ e.price = group_df[n].variant_price

\* no option declared: two SKU rows, both in the batch for the default variant, each with
\* its own price
C20_Witness ==
    /\ AfterPoll
    /\ ~truthy(option_name_of(main_row))
    /\ ResolvedRows = {1, 2}
    /\ \E k \in PriceUpdates :
           /\ Len(log[k].batch) = 2
           /\ log[k].batch[1].id = log[k].batch[2].id
           /\ log[k].batch[1].price # log[k].batch[2].price

(***************************************************************************)
(* C21: ensure_product_options_exist issues no productOptionsCreate when   *)
(* the product has an option of the declared name, and otherwise exactly   *)
(* one, with the values of the rows' option cells, each once and in the    *)
(* order they are first seen.                                              *)
(***************************************************************************)
EnsureDone ==
    /\ loc.path = "update"
    /\ DeclaresOption
    /\ (loc.i >= 1 \/ pc = "finished")

OptionCreates == Issued({"productOptionsCreate"})

C21_EnsureIdempotent ==
    EnsureDone =>
        IF option_name_of(main_row) \in Range(remote0.options)
        THEN OptionCreates = {}
        ELSE /\ Cardinality(OptionCreates) = 1
             /\ \A n \in OptionCreates : log[n].vals = fromkeys(option_values_of(group_df))

\* the same, when the getProduct query is answered
C21_EnsureIdempotent_Answered ==
    (\A n \in Issued({"getProduct"}) : log[n].answer = "data") => C21_EnsureIdempotent

\* the option was there and the mutation was issued all the same
C21_Witness ==
    /\ EnsureDone
    /\ option_name_of(main_row) \in Range(remote0.options)
    /\ OptionCreates # {}

(***************************************************************************)
(* C22: for a row whose trimmed SKU is that of a variant of the product,   *)
(* main issues one productVariantsBulkUpdate with that variant and the     *)
(* row's price, and no productVariantsBulkCreate.  As first stated, a      *)
(* getVariant query and an inventoryItemUpdate with the row's SKU follow   *)
(* it; in the code the query follows only a price update answered with     *)
(* the variant, and the write only a query answered with an inventory      *)
(* item.                                                                   *)
(***************************************************************************)
MatchedRows == {n \in SkuRows : Processed(n) /\ SkuMatches(n) # {}}

\* the price update of row n is request k, of the variant with the row's SKU and at the
\* row's price
PriceUpdateOf(n, k) ==
    /\ UpdatesFor(n) = {k}
    /\ log[k].vid \in {v.id : v \in SkuMatches(n)}
    /\ log[k].batch = <<[id |-> log[k].vid, price |-> group_df[n].variant_price, row |-> n]>>
    /\ CreatesFor(n) = {}

RequeryAfter(k) ==
    /\ Len(log) > k
    /\ log[k + 1].op = "getVariant"
    /\ log[k + 1].vid = log[k].vid

SkuWriteAfter(n, k) ==
    /\ Len(log) > k + 1
    /\ log[k + 2].op = "inventoryItemUpdate"
    /\ log[k + 2].vid = log[k].vid
    /\ log[k + 2].sku = group_df[n].variant_sku

C22_MatchedRowPriceThenSku ==
    loc.path = "update" =>
        \A n \in MatchedRows :
            \E k \in 1..Len(log) :
                PriceUpdateOf(n, k) /\ RequeryAfter(k) /\ SkuWriteAfter(n, k)

C22_MatchedRowPriceThenSkuIfAnswered ==
    loc.path = "update" =>
        \A n \in MatchedRows :
            \E k \in 1..Len(log) :
                /\ PriceUpdateOf(n, k)
                /\ RequeryAfter(k) <=> log[k].answer = "data"
                /\ SkuWriteAfter(n, k) <=>
                       (log[k].answer = "data" /\ log[k + 1].answer = "inventory")
                /\ \A q \in Issued({"inventoryItemUpdate"}) : log[q].src = {n} => q = k + 2

\* a padded SKU matched: the price update, the query and the write of the padded SKU
C22_Witness ==
    /\ loc.path = "update"
    /\ pc = "finished"
    /\ \E n \in MatchedRows :
           /\ group_df[n].variant_sku = PadABC1
           /\ \E k \in UpdatesFor(n) : RequeryAfter(k) /\ SkuWriteAfter(n, k)

(***************************************************************************)
(* C23: main issues productCreate for a handle only when the product of    *)
(* that handle did not exist when check_product_exists asked for it; a     *)
(* lookup that run_graphql_query answers with None, for a handle whose     *)
(* product exists, is not followed by a productCreate.                     *)
(***************************************************************************)
Lookups == Issued({"productByHandle"})

C23_CreateOnlyWhenAbsent ==
    Issued({"productCreate"}) # {} => ~remote0.exists

\* the same, for the runs whose lookup was answered
C23_CreateOnlyWhenAbsent_Answered ==
    (\A n \in Lookups : log[n].answer = "data") => C23_CreateOnlyWhenAbsent

\* the lookup of an existing product failed and a productCreate followed it
C23_Witness ==
    /\ remote0.exists
    /\ \E n \in Lookups : log[n].answer = "None" /\ Len(log) > n /\ log[n + 1].op = "productCreate"

(***************************************************************************)
(* C24: main comes to the end of the group whatever the requests are       *)
(* answered, and the requests it issues for the group are bounded by the   *)
(* numbers of rows, image entries and metafields: every request is issued  *)
(* once, or once per row, entry or metafield, and only the                 *)
(* getProductVariants poll asks again, at most PollAttempts times.         *)
(***************************************************************************)
Rows == Len(group_df)
ImageCount == Len(main_row.images)
MetafieldCount == main_row.metafields

\* the most requests of one operation for a group
Limit(op) ==
    CASE op \in {"productByHandle", "productCreate", "productUpdate", "getProduct",
                 "productOptionsCreate", "productUpdateImages", "getPublications",
                 "publishablePublish"} -> 1
      [] op = "getProductVariants" -> PollAttempts
      [] op = "productVariantsBulkUpdate" -> IF loc.path = "create" THEN 1 ELSE Rows
      [] op \in {"productVariantsBulkCreate", "getVariant", "inventoryItemUpdate"} -> Rows
      [] op = "fileCreate" -> ImageCount
      [] op = "metafieldsSet" -> MetafieldCount

RequestBound(rows, images, metafields) == 7 + PollAttempts + 3 * rows + images + metafields

\* no request is issued twice for the same row
OncePerRow ==
    \A a, b \in 1..Len(log) :
        (a < b /\ log[a].op = log[b].op /\ log[a].src = log[b].src /\ log[a].src # {})
            => log[a].op = "inventoryItemUpdate" /\ log[a].vid # log[b].vid

RequestsBounded ==
    /\ \A op \in Mutations \cup Queries : Cardinality(Issued({op})) <= Limit(op)
    /\ Len(log) <= RequestBound(Rows, ImageCount, MetafieldCount)
    /\ OncePerRow

C24_TerminatesWithBoundedRequests ==
    /\ []RequestsBounded
    /\ <>(pc = "finished")

\* the poll ran out and the run ended all the same
C24_Witness ==
    /\ pc = "finished"
    /\ Cardinality(Issued({"getProductVariants"})) = PollAttempts
    /\ Rows = MaxRows

(***************************************************************************)
(* C25: on the update path main asks for the product once, and decides     *)
(* every row against the existing_variants of that answer: the row goes to *)
(* create_variant exactly when its trimmed SKU is not a key of it, also    *)
(* when an earlier row of the group has made a variant of that SKU since.  *)
(* As first stated every such row issues a productVariantsBulkCreate; in   *)
(* the code create_variant updates the default variant instead when the    *)
(* group declares no option and the lookup returned a default variant.     *)
(***************************************************************************)
Snapshot == variants_by_sku(remote0, Len(remote0.variants))

RoutedAgainstSnapshot ==
    /\ Cardinality(Lookups) = 1
    /\ loc.existing_variants = Snapshot
    /\ \A n \in SkuRows :
           Processed(n) =>
               (RouteOf(n) = "create_variant"
                    <=> strip(group_df[n].variant_sku) \notin DOMAIN Snapshot)

UpdatesDefault(n) ==
    /\ CreatesFor(n) = {}
    /\ Cardinality(UpdatesFor(n)) = 1
    /\ \A k \in UpdatesFor(n) : log[k].vid = loc.default_variant_id

C25_UnmatchedRowsEachCreate ==
    loc.path = "update" =>
        /\ RoutedAgainstSnapshot
        /\ \A n \in SkuRows :
               (Processed(n) /\ RouteOf(n) = "create_variant")
                   => Cardinality(CreatesFor(n)) = 1

C25_UnmatchedRowsEachCreateOrDefault ==
    loc.path = "update" =>
        /\ RoutedAgainstSnapshot
        /\ \A n \in SkuRows :
               (Processed(n) /\ RouteOf(n) = "create_variant")
                   => IF truthy(loc.option_name) \/ loc.default_variant_id = 0
                      THEN Cardinality(CreatesFor(n)) = 1
                      ELSE UpdatesDefault(n)

\* two rows of one SKU that the product did not have: the first row's variant has the SKU
\* by the time the second row is decided, and the second row issues its create as well
C25_Witness ==
    /\ loc.path = "update"
    /\ pc = "finished"
    /\ Len(group_df) = 2
    /\ group_df[1].variant_sku = group_df[2].variant_sku
    /\ CreatesFor(1) # {} /\ CreatesFor(2) # {}
    /\ \E v \in Range(remote.variants) :
           v.id = remote0.nextId /\ v.sku = group_df[1].variant_sku

(***************************************************************************)
(* C26: in create_product_with_variants, with an option name declared, a   *)
(* SKU row whose option value is that of no variant in the last poll       *)
(* answer is in no productVariantsBulkUpdate batch and gets no             *)
(* inventoryItemUpdate: the default variant is not taken in its place.     *)
(* The function goes on all the same: one upload per file, the attach, the *)
(* metafields, the channel listing, and the publish mutation when the      *)
(* listing is answered with the Online Store.                              *)
(***************************************************************************)
UnmatchedRows == SkuRows \ ResolvedRows

Untouched(n) ==
    /\ \A k \in PriceUpdates : \A e \in Range(log[k].batch) : e.row # n
    /\ \A w \in SkuWrites : log[w].src # {n}

AssetsAndPublish ==
    /\ loc.returned = "product_id"
    /\ \A j \in 1..Len(main_row.images) : IsUrl(j) \/ UploadsOf(j) # {}
    /\ main_row.images # <<>> => Issued({"productUpdateImages"}) # {}
    /\ Cardinality(Issued({"metafieldsSet"})) = main_row.metafields
    /\ \E n \in Issued({"getPublications"}) :
           OnlineStoreListed(n) => Issued({"publishablePublish"}) = {n + 1}

C26_UnmatchedRowUntouchedProductPublished ==
    (AfterPoll /\ truthy(option_name_of(main_row)) /\ pc # "productVariantsBulkUpdate") =>
        /\ \A n \in UnmatchedRows : Untouched(n)
        /\ (pc = "finished" /\ loc.returned # "None" /\ UnmatchedRows # {}) => AssetsAndPublish

\* productOptionsCreate came back with user errors: the row's value is that of no variant,
\* nothing is sent for the row, and the product has its image, its metafield and is published
C26_Witness ==
    /\ AfterPoll
    /\ pc = "finished"
    /\ truthy(option_name_of(main_row))
    /\ UnmatchedRows = SkuRows
    /\ SkuRows # {}
    /\ \E n \in SkuRows : ~isna(group_df[n].variant_option1_value)
    /\ Issued({"productOptionsCreate"}) # {}
    /\ PriceUpdates = {}
    /\ Issued({"productUpdateImages"}) # {}
    /\ Issued({"metafieldsSet"}) # {}
    /\ loc.published

====
